---------------------------- MODULE Spec2Model ----------------------------
(***************************************************************************)
(* A model of the protocol engine of the SparkFun Swarm M138 Arduino       *)
(* library (SparkFun_Swarm_Satellite_Arduino_Library.cpp): the framer      *)
(* (addChecksumLF / checkChecksum), the Backlog and its pruner, the        *)
(* send/wait state machine and the unsolicited-message dispatcher.         *)
(*                                                                         *)
(* Bytes are their ASCII codes (0..255).  A C string is the sequence of    *)
(* its bytes before the terminating NUL.                                   *)
(***************************************************************************)
EXTENDS Integers, Sequences, FiniteSets, TLC

VARIABLES
  now,            \* millis(): the 32-bit millisecond clock, as two halves
  wire,           \* transport: the bursts of bytes the modem has still to send
  hwRx,           \* transport: the bytes received and not yet read (hwAvailable)
  hwTx,           \* transport: the bytes written to the modem, in order
  memLow,         \* whether an allocation may fail (new returns NULL)
  _swarmBacklog,  \* the Backlog, as the C string strlen sees in it
  commandError,   \* the Command Error Slot, as a C string
  _checkUnsolicitedMsgReentrant,
  callbacks,      \* the tags whose callback pointer is not NULL
  stack,          \* the call stack: one record of locals per active call
  budget,         \* how many more engine calls the host application makes
  fired,          \* history: the callbacks invoked, in order
  lastCall,       \* history: the call entered last
  lastRet,        \* history: the call that returned last, and what it returned
  fault,          \* "none", or the undefined behaviour the run has met
  pruneLog,       \* history: the Backlog after each pruneBacklog
  fstr,   \* framer harness: the character buffer the framer works on
  forig,  \* framer harness: the buffer as it was given
  fop,    \* framer harness: the last operation applied to fstr
  fres,   \* framer harness: the last checkChecksum result ("none" before)
  fflip   \* framer harness: the byte changed last: [pos, byte, before]

framerVars == <<fstr, forig, fop, fres, fflip>>
engineVars ==
  <<now, wire, hwRx, hwTx, memLow, _swarmBacklog, commandError,
    _checkUnsolicitedMsgReentrant, callbacks, stack, budget, fired, lastCall,
    lastRet, fault, pruneLog>>
vars == <<engineVars, framerVars>>

-----------------------------------------------------------------------------
(* Characters *)

\* The printable ASCII characters, in code order from 32 (space) to 126 (~).
ASCII ==
  << " ", "!", "\"", "#", "$", "%", "&", "'", "(", ")", "*", "+", ",", "-", ".", "/",
     "0", "1", "2", "3", "4", "5", "6", "7", "8", "9", ":", ";", "<", "=", ">", "?",
     "@", "A", "B", "C", "D", "E", "F", "G", "H", "I", "J", "K", "L", "M", "N", "O",
     "P", "Q", "R", "S", "T", "U", "V", "W", "X", "Y", "Z", "[", "\\", "]", "^", "_",
     "(grave)", "a", "b", "c", "d", "e", "f", "g", "h", "i", "j", "k", "l", "m", "n", "o",
     "p", "q", "r", "s", "t", "u", "v", "w", "x", "y", "z", "{", "|", "}", "~" >>

\* The code of a printable character.
Ord(c) == 31 + (CHOOSE i \in 1..Len(ASCII) : ASCII[i] = c)

\* The bytes of a string literal written as a tuple of one-character strings.
Str(t) == [i \in 1..Len(t) |-> Ord(t[i])]

NUL == 0
LF == 10
DOLLAR == Ord("$")
STAR == Ord("*")
COMMA == Ord(",")
SPACE == Ord(" ")

\* s[i], or the terminating NUL when i is past the end of the string.
At(s, i) == IF i >= 1 /\ i <= Len(s) THEN s[i] ELSE NUL

\* The C string held by a buffer: its bytes before the first NUL.
CStr(mem) ==
  IF \E i \in 1..Len(mem) : mem[i] = NUL
  THEN SubSeq(mem, 1, (CHOOSE i \in 1..Len(mem) :
                          mem[i] = NUL /\ \A j \in 1..(i-1) : mem[j] # NUL) - 1)
  ELSE mem

\* strchr(s + (from-1), c): the index of the first c at or after from, 0 for NULL.
strchr(s, from, c) ==
  IF \E i \in from..Len(s) : s[i] = c
  THEN CHOOSE i \in from..Len(s) :
         s[i] = c /\ \A j \in from..(i - 1) : s[j] # c
  ELSE 0

\* strstr(s + (from-1), pat): the index of the first occurrence at or after from.
IsAt(s, i, pat) ==
  /\ i + Len(pat) - 1 <= Len(s)
  /\ \A k \in 1..Len(pat) : s[i + k - 1] = pat[k]

strstr(s, from, pat) ==
  IF \E i \in from..(Len(s) - Len(pat) + 1) : IsAt(s, i, pat)
  THEN CHOOSE i \in from..(Len(s) - Len(pat) + 1) :
         IsAt(s, i, pat) /\ \A j \in from..(i - 1) : ~IsAt(s, j, pat)
  ELSE 0

\* Bitwise exclusive or of two bytes.
RECURSIVE Xor(_, _)
Xor(a, b) ==
  IF a = 0 THEN b
  ELSE IF b = 0 THEN a
  ELSE ((a + b) % 2) + 2 * Xor(a \div 2, b \div 2)

\* checksum ^= *p for every byte of s, starting from 0 (a char: 8 bits).  The
\* exclusive or is associative: the bytes are taken half by half.
RECURSIVE XorAll(_)
XorAll(s) ==
  IF s = <<>> THEN 0
  ELSE IF Len(s) = 1 THEN s[1] % 256
  ELSE Xor(XorAll(SubSeq(s, 1, Len(s) \div 2)),
           XorAll(SubSeq(s, Len(s) \div 2 + 1, Len(s)))) % 256

\* All sequences over S of length 0..n.
RECURSIVE SeqsUpTo(_, _)
SeqsUpTo(S, n) ==
  IF n = 0 THEN {<<>>}
  ELSE LET shorter == SeqsUpTo(S, n - 1)
       IN  shorter \cup {Append(s, c) : s \in {t \in shorter : Len(t) = n - 1}, c \in S}

-----------------------------------------------------------------------------
(* Swarm_M138_Error_e *)

SWARM_M138_ERROR_ERROR == "ERROR"
SWARM_M138_ERROR_SUCCESS == "SUCCESS"
SWARM_M138_ERROR_TIMEOUT == "TIMEOUT"
SWARM_M138_ERROR_INVALID_FORMAT == "INVALID_FORMAT"
SWARM_M138_ERROR_INVALID_CHECKSUM == "INVALID_CHECKSUM"
SWARM_M138_ERROR_ERR == "ERR"

-----------------------------------------------------------------------------
(* Framer *)

\* A variant that moves the digits above '9' up from '9' instead of from ':'.
HexDigitOfFromNine(nibble) ==
  LET d == nibble + Ord("0")
  IN  IF d >= Ord(":") THEN d + Ord("a") - Ord("9") ELSE d

\* One checksum nibble as addChecksumLF writes it: nibble + '0', moved up to
\* 'a'..'f' when that is ':' or more.
HexDigitOf(nibble) ==
  LET d == nibble + Ord("0")
  IN  IF d >= Ord(":") THEN d + Ord("a") - Ord(":") ELSE d

\* The characters addChecksumLF puts after the asterix for a checksum.
ChecksumChars(checksum) ==
  << HexDigitOf(checksum \div 16), HexDigitOf(checksum % 16) >>

\* addChecksumLF(command): the C string left in the command buffer.  The
\* commands are 7-bit ASCII, so the char checksum is never negative and
\* checksum >> 4 is checksum \div 16.  The caller's buffer is taken to have
\* room for the four bytes written after the asterix.
addChecksumLF(command) ==
  LET dollar == strchr(command, 1, DOLLAR)
  IN  IF dollar = 0 THEN command
      ELSE LET first == strchr(command, dollar, STAR)
           IN  IF first = 0 THEN command
               ELSE LET asterix == IF At(command, first + 1) = STAR
                                   THEN first + 1 ELSE first
                        checksum == XorAll(SubSeq(command, dollar + 1, asterix - 1))
                    IN  SubSeq(command, 1, asterix) \o ChecksumChars(checksum) \o <<LF>>

\* A variant that takes the digits a-f in lower case only.
HexValueLowerCase(c) ==
  IF c >= Ord("0") /\ c <= Ord("9") THEN c - Ord("0")
  ELSE IF c >= Ord("a") /\ c <= Ord("f") THEN c + 10 - Ord("a")
  ELSE -1

\* The value of a checksum character, -1 when it is not a hex digit.
HexValue(c) ==
  IF c >= Ord("0") /\ c <= Ord("9") THEN c - Ord("0")
  ELSE IF c >= Ord("a") /\ c <= Ord("f") THEN c + 10 - Ord("a")
  ELSE IF c >= Ord("A") /\ c <= Ord("F") THEN c + 10 - Ord("A")
  ELSE -1

\* A variant whose loop starts one byte late.
ChecksumRegionStartsLate(s, dollar, asterix) == SubSeq(s, dollar + 2, asterix - 1)

\* The bytes checkChecksum includes in its exclusive or: those strictly
\* between the dollar and the asterix.
ChecksumRegion(s, dollar, asterix) == SubSeq(s, dollar + 1, asterix - 1)

\* checkChecksum(startPosition) on the C string s.
checkChecksum(s) ==
  LET dollar == strchr(s, 1, DOLLAR)
  IN  IF dollar = 0 THEN SWARM_M138_ERROR_INVALID_FORMAT
      ELSE LET asterix == strchr(s, dollar, STAR)
           IN  IF asterix = 0 THEN SWARM_M138_ERROR_INVALID_FORMAT
               ELSE LET checksum == XorAll(ChecksumRegion(s, dollar, asterix))
                        hi == HexValue(At(s, asterix + 1))
                        lo == HexValue(At(s, asterix + 2))
                    IN  IF hi = -1 THEN SWARM_M138_ERROR_INVALID_FORMAT
                        ELSE IF lo = -1 THEN SWARM_M138_ERROR_INVALID_FORMAT
                        ELSE IF checksum # ((hi * 16) % 256) + lo
                             THEN SWARM_M138_ERROR_INVALID_CHECKSUM
                        ELSE SWARM_M138_ERROR_SUCCESS

-----------------------------------------------------------------------------
(* The millisecond clock *)

\* millis() is an unsigned long of 32 bits, kept as its two 16-bit halves.
HalfWord == 65536
Millis(hi, lo) == [hi |-> hi, lo |-> lo]

\* A variant for a clock that is two bits wide.
MillisAfterTwoBits(t, ms) == [hi |-> 0, lo |-> (t.lo + ms) % 4]

\* t + ms in unsigned 32-bit arithmetic (ms below 2^16).
MillisAfter(t, ms) ==
  LET lo == t.lo + ms
  IN  [hi |-> (t.hi + (lo \div HalfWord)) % HalfWord, lo |-> lo % HalfWord]

\* a < b for two unsigned 32-bit values.
MillisBefore(a, b) == a.hi < b.hi \/ (a.hi = b.hi /\ a.lo < b.lo)

\* t - timeIn in unsigned 32-bit arithmetic.
MillisSince(t, timeIn) ==
  LET lo == t.lo - timeIn.lo
      borrow == IF lo < 0 THEN 1 ELSE 0
  IN  [hi |-> (t.hi - timeIn.hi - borrow + HalfWord) % HalfWord,
       lo |-> (lo + HalfWord) % HalfWord]

\* An unsigned 32-bit value is below a small number.
MillisBelow(d, ms) == d.hi = 0 /\ d.lo < ms

-----------------------------------------------------------------------------
(* The engine's state after the constructor and begin() *)

_RxBuffSize == 64
_rxWindowMillis == 5
SWARM_M138_MAX_CMD_ERROR_LEN == 32

NoCall == [fn |-> "none", depth |-> 0, seq |-> 0]
NoReturn == [fn |-> "none"]

\* SWARM_M138::SWARM_M138 and initializeBuffers: both buffers zeroed, the
\* re-entrancy flag clear.  The callback pointers and the transport's content
\* are set by each specification.
EngineConstructed ==
  /\ hwRx = <<>>
  /\ hwTx = <<>>
  /\ _swarmBacklog = <<>>
  /\ commandError = <<>>
  /\ _checkUnsolicitedMsgReentrant = FALSE
  /\ callbacks = {}
  /\ stack = <<>>
  /\ fired = <<>>
  /\ lastCall = NoCall
  /\ lastRet = NoReturn
  /\ fault = "none"
  /\ pruneLog = <<>>

FramerIdle ==
  /\ fstr = <<>> /\ forig = <<>> /\ fop = "idle" /\ fres = "none"
  /\ fflip = [pos |-> 0, byte |-> 0, before |-> <<>>]

-----------------------------------------------------------------------------
(* Backlog Pruner *)

\* The events pruneBacklog keeps: those holding one of these.
KeptPatterns ==
  { Str(<<"$", "D", "T", " ">>), Str(<<"$", "G", "J", " ">>),
    Str(<<"$", "G", "N", " ">>), Str(<<"$", "G", "S", " ">>),
    Str(<<"$", "P", "W", " ">>), Str(<<"$", "R", "D", " ">>),
    Str(<<"$", "R", "T", " ">>), Str(<<"$", "S", "L", " ">>),
    Str(<<"$", "M", "1", "3", "8", " ">>), Str(<<"$", "T", "D", " ">>) }

\* The tokens strtok_r(s, "\n", ...) returns one after the other: the maximal
\* runs of bytes other than the line feed.
RECURSIVE Tokens(_)
Tokens(s) ==
  IF s = <<>> THEN <<>>
  ELSE IF s[1] = LF THEN Tokens(Tail(s))
  ELSE LET e == strchr(s, 1, LF)
       IN  IF e = 0 THEN <<s>>
           ELSE <<SubSeq(s, 1, e - 1)>> \o Tokens(SubSeq(s, e + 1, Len(s)))

\* The if statement of pruneBacklog: the event holds a kept pattern.
Actionable(event) == \E t \in KeptPatterns : strstr(event, 1, t) # 0

\* A variant that keeps an event without the line feed after it.
KeptEventBare(event) == event

\* What pruneBacklog appends to _pruneBuffer for a kept event.
KeptEvent(event) == event \o <<LF>>

\* _pruneBuffer after the while loop over the events.
RECURSIVE PruneBuffer(_)
PruneBuffer(events) ==
  IF events = <<>> THEN <<>>
  ELSE (IF Actionable(events[1]) THEN KeptEvent(events[1]) ELSE <<>>)
         \o PruneBuffer(Tail(events))

\* What strlen may find after a buffer that was left without its NUL: the
\* bytes of whatever follows the buffer in memory.
Adjacent == { <<>>, Str(<<")">>), Str(<<"$", "D", "T", " ", "!">>) }

\* The outcomes of pruneBacklog(): the Backlog it leaves.  When the kept events
\* with their line feeds do not fit _RxBuffSize - 1 bytes, strcat writes past
\* the end of _pruneBuffer and the Backlog is left without a terminating NUL.
PruneOutcomes(backlog, low) ==
  LET pruned == PruneBuffer(Tokens(backlog))
  IN  (IF low THEN {[backlog |-> <<>>, fault |-> "none"]} ELSE {})
      \cup (IF Len(pruned) < _RxBuffSize
            THEN {[backlog |-> pruned, fault |-> "none"]}
            ELSE {[backlog |-> pruned \o g, fault |-> "pruneBacklog overrun"] :
                    g \in Adjacent})

Faulted(f, new) == IF f = "none" THEN new ELSE f

-----------------------------------------------------------------------------
(* The pruner on its own: Backlog contents drawn from a bounded set. *)

MaxPruneLines == 3
MaxPrunes == 2

\* A kept line of n bytes.
PadLine(n) == Str(<<"$", "G", "N", " ">>) \o [i \in 1..(n - 4) |-> Ord("7")]

\* Lines a Backlog is made of: kept, discarded and empty ones, and kept lines
\* long enough to fill the Backlog.
PruneLines ==
  { Str(<<"$", "D", "T", " ", "1">>), Str(<<"x", "$", "T", "D", " ">>),
    Str(<<"$", "M", "1", "3", "8", " ">>),
    Str(<<"$", "C", "S">>), Str(<<"$", "D", "T">>), Str(<<"a">>), <<>> }
  \cup { PadLine(_RxBuffSize - 1 - k) : k \in 0..7 }

RECURSIVE JoinLines(_, _)
JoinLines(ls, lastNewline) ==
  IF ls = <<>> THEN <<>>
  ELSE IF Len(ls) = 1 THEN ls[1] \o (IF lastNewline THEN <<LF>> ELSE <<>>)
  ELSE ls[1] \o <<LF>> \o JoinLines(Tail(ls), lastNewline)

PruneInputs ==
  { b \in { JoinLines(ls, nl) : ls \in SeqsUpTo(PruneLines, MaxPruneLines),
                                nl \in BOOLEAN } : Len(b) < _RxBuffSize }

InitPrune ==
  /\ now = Millis(0, 0) /\ hwRx = <<>> /\ hwTx = <<>> /\ wire = <<>>
  /\ memLow \in BOOLEAN
  /\ _swarmBacklog \in PruneInputs
  /\ commandError = <<>>
  /\ _checkUnsolicitedMsgReentrant = FALSE
  /\ callbacks = {}
  /\ stack = <<>>
  /\ budget = 0
  /\ fired = <<>>
  /\ lastCall = NoCall
  /\ lastRet = NoReturn
  /\ fault = "none"
  /\ pruneLog = <<>>
  /\ FramerIdle

\* pruneBacklog() runs on the Backlog.
PruneStep ==
  /\ Len(pruneLog) < MaxPrunes
  /\ \E low \in {FALSE, memLow} :
     \E r \in PruneOutcomes(_swarmBacklog, low) :
       /\ _swarmBacklog' = r.backlog
       /\ fault' = Faulted(fault, r.fault)
       /\ pruneLog' = Append(pruneLog, [backlog |-> r.backlog, alloc |-> ~low])
  /\ UNCHANGED <<now, wire, hwRx, hwTx, memLow, commandError,
                 _checkUnsolicitedMsgReentrant, callbacks, stack, budget, fired,
                 lastCall, lastRet, framerVars>>

NextPrune == PruneStep

SpecPrune == InitPrune /\ [][NextPrune]_vars

-----------------------------------------------------------------------------
(* Command Error Slot *)

Min(a, b) == IF a < b THEN a ELSE b

ERR_COMMA == Str(<<"E", "R", "R", ",">>)

\* extractCommandError(startPosition): what commandError holds afterwards.
\* The slot is cleared first; the text between "ERR," and the next asterix is
\* copied, at most SWARM_M138_MAX_CMD_ERROR_LEN - 1 characters of it.
extractCommandError(startPosition) ==
  LET errorAt == strstr(startPosition, 1, ERR_COMMA)
      asterix == IF errorAt = 0 THEN 0
                 ELSE strchr(startPosition, errorAt + 4, STAR)
  IN  IF errorAt = 0 \/ asterix = 0 THEN <<>>
      ELSE SubSeq(startPosition, errorAt + 4,
                  Min(asterix - 1,
                      errorAt + 4 + (SWARM_M138_MAX_CMD_ERROR_LEN - 1) - 1))

-----------------------------------------------------------------------------
(* Transport *)

\* hwAvailable() on a serial port: the bytes waiting in its receive buffer.
hwAvailable == Len(hwRx)

Top == stack[Len(stack)]
Pop == SubSeq(stack, 1, Len(stack) - 1)
ReplaceTop(f) == [stack EXCEPT ![Len(stack)] = f]
Push(f) == Append(stack, f)

\* The modem's next bytes arrive in the receive buffer of the port.
Deliver ==
  /\ wire # <<>>
  /\ hwRx' = hwRx \o Head(wire)
  /\ wire' = Tail(wire)
  /\ UNCHANGED <<now, hwTx, memLow, _swarmBacklog, commandError,
                 _checkUnsolicitedMsgReentrant, callbacks, stack, budget, fired,
                 lastCall, lastRet, fault, pruneLog, framerVars>>

-----------------------------------------------------------------------------
(* sendCommandWithResponse: sendCommand *)

\* Whether the code that is running may call into the engine: the sketch's
\* loop(), or a callback the engine has invoked.
MayCall == IF stack = <<>> THEN TRUE ELSE Top.fn = "callback"

Called(fn) ==
  [fn |-> fn, depth |-> Len(stack), seq |-> lastCall.seq + 1]

\* History: what a call found on entry, and (after) the call that had
\* returned before it was made: from the entry of that one on nothing more was
\* to arrive (quiet), and it found the Backlog empty.
OnEntry ==
  [backlog |-> _swarmBacklog, pending |-> hwRx, quiet |-> wire = <<>>,
   fired |-> Len(fired), flag |-> _checkUnsolicitedMsgReentrant,
   commandError |-> commandError, hwTx |-> hwTx,
   after |->
     IF lastRet.fn = "checkUnsolicitedMsg"
     THEN [fn |-> lastRet.fn, top |-> lastRet.depth = 0, ret |-> lastRet.ret,
           quiet |-> lastRet.entry.quiet,
           empty |-> lastRet.entry.backlog = <<>>]
     ELSE [fn |-> lastRet.fn, top |-> FALSE, ret |-> FALSE, quiet |-> FALSE,
           empty |-> FALSE]]

\* The locals of waitForResponse on entry.
WaitFrame(req, t, backlog, pending, call) ==
  [fn |-> "waitForResponse",
   expectedResponseStart |-> req.expectedResponseStart,
   expectedErrorStart |-> req.expectedErrorStart,
   destSize |-> req.destSize,
   timeout |-> req.timeout,
   timeIn |-> t,
   found |-> FALSE,
   responseDest |-> <<>>,          \* responseDest[0 .. destIndex - 1]
   responseStartSeen |-> FALSE, errorStartSeen |-> FALSE,
   responseIndex |-> 0, errorIndex |-> 0,
   responseStartedAt |-> 0, errorStartedAt |-> 0,
   backlogOnEntry |-> backlog,     \* history: the Backlog on entry
   pendingOnEntry |-> pending,     \* history: the bytes waiting on entry
   command |-> req.command,        \* history: the command of the call
   call |-> call]                  \* history: what the call found on entry

\* The while condition of the drain in sendCommand.
DrainContinues(f, t) ==
  /\ MillisBelow(MillisSince(t, f.timeIn), _rxWindowMillis)
  /\ (f.backlogLength + f.hwAvail) < _RxBuffSize

\* sendCommandWithResponse(command, expectedResponseStart, expectedErrorStart,
\* responseDest, destSize, commandTimeout) is called: sendCommand samples the
\* clock and the port.  With nothing waiting, the command is written at once
\* and waitForResponse is entered.
SendCommandWithResponse(req) ==
  /\ MayCall
  /\ budget > 0
  /\ budget' = budget - 1
  /\ lastCall' = Called("sendCommandWithResponse")
  /\ IF hwAvailable > 0
     THEN /\ stack' = Push([fn |-> "sendCommand", req |-> req, timeIn |-> now,
                            hwAvail |-> hwAvailable,
                            backlogLength |-> Len(_swarmBacklog),
                            call |-> OnEntry])
          /\ hwTx' = hwTx
     ELSE /\ stack' = Push(WaitFrame(req, now, _swarmBacklog, hwRx, OnEntry))
          /\ hwTx' = hwTx \o req.command
  /\ UNCHANGED <<now, wire, hwRx, memLow, _swarmBacklog, commandError,
                 _checkUnsolicitedMsgReentrant, callbacks, fired, lastRet,
                 fault, pruneLog, framerVars>>

\* One pass of the drain loop with bytes waiting: hwReadChars moves hwAvail
\* bytes to the end of the Backlog, the window restarts, the port is sampled.
DrainRead ==
  /\ stack # <<>> /\ Top.fn = "sendCommand"
  /\ DrainContinues(Top, now)
  /\ Top.hwAvail > 0
  /\ _swarmBacklog' = _swarmBacklog \o SubSeq(hwRx, 1, Top.hwAvail)
  /\ hwRx' = SubSeq(hwRx, Top.hwAvail + 1, Len(hwRx))
  /\ stack' = ReplaceTop([Top EXCEPT
                 !.backlogLength = @ + Top.hwAvail,
                 !.timeIn = now,
                 !.hwAvail = Len(hwRx) - Top.hwAvail])
  /\ UNCHANGED <<now, wire, hwTx, memLow, commandError,
                 _checkUnsolicitedMsgReentrant, callbacks, budget, fired,
                 lastCall, lastRet, fault, pruneLog, framerVars>>

\* One pass of the drain loop with nothing waiting: delay(1), then the port is
\* sampled.
DrainDelay ==
  /\ stack # <<>> /\ Top.fn = "sendCommand"
  /\ DrainContinues(Top, now)
  /\ Top.hwAvail = 0
  /\ now' = MillisAfter(now, 1)
  /\ stack' = ReplaceTop([Top EXCEPT !.hwAvail = hwAvailable])
  /\ UNCHANGED <<wire, hwRx, hwTx, memLow, _swarmBacklog, commandError,
                 _checkUnsolicitedMsgReentrant, callbacks, budget, fired,
                 lastCall, lastRet, fault, pruneLog, framerVars>>

\* A variant of the end of the drain that sends the command twice.
DrainDoneTwice ==
  /\ stack # <<>> /\ Top.fn = "sendCommand"
  /\ ~DrainContinues(Top, now)
  /\ hwTx' = hwTx \o Top.req.command \o Top.req.command
  /\ stack' = ReplaceTop(WaitFrame(Top.req, now, _swarmBacklog, hwRx,
                                    Top.call))
  /\ UNCHANGED <<now, wire, hwRx, memLow, _swarmBacklog, commandError,
                 _checkUnsolicitedMsgReentrant, callbacks, budget, fired,
                 lastCall, lastRet, fault, pruneLog, framerVars>>

\* The drain loop ends: hwPrint(command), and waitForResponse is entered.
DrainDone ==
  /\ stack # <<>> /\ Top.fn = "sendCommand"
  /\ ~DrainContinues(Top, now)
  /\ hwTx' = hwTx \o Top.req.command
  /\ stack' = ReplaceTop(WaitFrame(Top.req, now, _swarmBacklog, hwRx,
                                    Top.call))
  /\ UNCHANGED <<now, wire, hwRx, memLow, _swarmBacklog, commandError,
                 _checkUnsolicitedMsgReentrant, callbacks, budget, fired,
                 lastCall, lastRet, fault, pruneLog, framerVars>>

-----------------------------------------------------------------------------
(* sendCommandWithResponse: waitForResponse *)

\* The while condition of waitForResponse, in unsigned 32-bit arithmetic.
WaitContinues(f, t) ==
  /\ ~f.found
  /\ MillisBefore(t, MillisAfter(f.timeIn, f.timeout))

\* The body of the for loop of waitForResponse for the character c at
\* responseDest[chrPtr]: both forward scanners, then the test for the newline.
ScanChar(f, c, chrPtr) ==
  LET rHit == c = At(f.expectedResponseStart, f.responseIndex + 1)
      rIndex == IF rHit THEN f.responseIndex + 1 ELSE 0
      rSeen == f.responseStartSeen
                 \/ (rHit /\ rIndex = Len(f.expectedResponseStart))
      rAt == IF rHit /\ f.responseIndex = 0 /\ ~f.responseStartSeen
             THEN chrPtr ELSE f.responseStartedAt
      eHit == c = At(f.expectedErrorStart, f.errorIndex + 1)
      eIndex == IF eHit THEN f.errorIndex + 1 ELSE 0
      eSeen == f.errorStartSeen \/ (eHit /\ eIndex = Len(f.expectedErrorStart))
      eAt == IF eHit /\ f.errorIndex = 0 /\ ~f.errorStartSeen
             THEN chrPtr ELSE f.errorStartedAt
  IN  [f EXCEPT !.responseIndex = rIndex, !.responseStartSeen = rSeen,
                !.responseStartedAt = rAt,
                !.errorIndex = eIndex, !.errorStartSeen = eSeen,
                !.errorStartedAt = eAt,
                !.found = f.found \/ ((rSeen \/ eSeen) /\ c = LF)]

\* The for loop over the characters just read into responseDest at destIndex:
\* the body for each character in turn.  The locals g after the first half of
\* the characters are worked out before the second half is entered.
RECURSIVE ScanChars(_, _, _)
ScanChars(f, chars, chrPtr) ==
  IF chars = <<>> THEN f
  ELSE IF Len(chars) = 1 THEN ScanChar(f, chars[1], chrPtr)
  ELSE CHOOSE last \in
         { ScanChars(g, SubSeq(chars, Len(chars) \div 2 + 1, Len(chars)),
                     chrPtr + Len(chars) \div 2) :
             g \in {ScanChars(f, SubSeq(chars, 1, Len(chars) \div 2), chrPtr)} } :
         TRUE

\* (char *)&_swarmBacklog[startedAt]: the C string at that offset of the
\* Backlog.  The bytes after the Backlog's content are NUL.
BacklogAt(backlog, startedAt) ==
  IF startedAt < Len(backlog)
  THEN SubSeq(backlog, startedAt + 1, Len(backlog)) ELSE <<>>

\* The string waitForResponse hands to checkChecksum once found is set.
Validated(f, backlog) ==
  IF f.errorStartSeen THEN BacklogAt(backlog, f.errorStartedAt)
  ELSE BacklogAt(backlog, f.responseStartedAt)

\* err as waitForResponse returns it.
WaitErr(f, backlog) ==
  IF f.found
  THEN IF f.errorStartSeen
       THEN (IF checkChecksum(Validated(f, backlog)) = SWARM_M138_ERROR_SUCCESS
             THEN SWARM_M138_ERROR_ERR
             ELSE checkChecksum(Validated(f, backlog)))
       ELSE IF f.responseStartSeen
            THEN checkChecksum(Validated(f, backlog))
            ELSE SWARM_M138_ERROR_ERROR
  ELSE SWARM_M138_ERROR_TIMEOUT

\* One pass of the loop with bytes waiting that fit responseDest: they are
\* read, scanned, and copied to the Backlog if they fit there.
WaitRead ==
  /\ stack # <<>> /\ Top.fn = "waitForResponse"
  /\ WaitContinues(Top, now)
  /\ hwAvailable > 0
  /\ (Len(Top.responseDest) + hwAvailable) < Top.destSize
  /\ hwRx' = <<>>
  /\ stack' = ReplaceTop(
       ScanChars([Top EXCEPT !.responseDest = @ \o hwRx], hwRx,
                 Len(Top.responseDest)))
  /\ _swarmBacklog' =
       IF (Len(_swarmBacklog) + Len(hwRx)) < _RxBuffSize
       THEN _swarmBacklog \o hwRx ELSE _swarmBacklog
  /\ UNCHANGED <<now, wire, hwTx, memLow, commandError,
                 _checkUnsolicitedMsgReentrant, callbacks, budget, fired,
                 lastCall, lastRet, fault, pruneLog, framerVars>>

\* One pass of the loop with bytes waiting that do not fit responseDest:
\* nothing is read and nothing delays the loop; it spins while the clock runs.
WaitPanic ==
  /\ stack # <<>> /\ Top.fn = "waitForResponse"
  /\ WaitContinues(Top, now)
  /\ hwAvailable > 0
  /\ ~((Len(Top.responseDest) + hwAvailable) < Top.destSize)
  /\ now' = MillisAfter(now, 1)
  /\ UNCHANGED <<wire, hwRx, hwTx, memLow, _swarmBacklog, commandError,
                 _checkUnsolicitedMsgReentrant, callbacks, stack, budget, fired,
                 lastCall, lastRet, fault, pruneLog, framerVars>>

\* A variant of the idle pass that sends the command again.
WaitDelayResend ==
  /\ stack # <<>> /\ Top.fn = "waitForResponse"
  /\ WaitContinues(Top, now)
  /\ hwAvailable = 0
  /\ now' = MillisAfter(now, 1)
  /\ hwTx' = hwTx \o Top.command
  /\ UNCHANGED <<wire, hwRx, memLow, _swarmBacklog, commandError,
                 _checkUnsolicitedMsgReentrant, callbacks, stack, budget, fired,
                 lastCall, lastRet, fault, pruneLog, framerVars>>

\* One pass of the loop with nothing waiting: delay(1).
WaitDelay ==
  /\ stack # <<>> /\ Top.fn = "waitForResponse"
  /\ WaitContinues(Top, now)
  /\ hwAvailable = 0
  /\ now' = MillisAfter(now, 1)
  /\ UNCHANGED <<wire, hwRx, hwTx, memLow, _swarmBacklog, commandError,
                 _checkUnsolicitedMsgReentrant, callbacks, stack, budget, fired,
                 lastCall, lastRet, fault, pruneLog, framerVars>>

\* A value converted to size_t, which is 16 bits wide in the AVR build (as is
\* int); the steps below come out the same for every width.
SizeT(n) == n % (2 ^ 16)

\* One pass of the loop in which hwAvailable() returns -1: no port is set, or
\* the Qwiic bridge is inside its polling interval or does not answer.  The
\* count is stored in a size_t, so that it passes "hwAvail > 0"; with
\* destIndex above 0 it passes the room check as well, hwReadChars returns its
\* len of -1 which is stored in bytesRead, the for loop has nothing to scan,
\* the copy to a Backlog that is not empty is a memcpy of SIZE_MAX bytes, and
\* destIndex += bytesRead moves destIndex back by one.  No delay is made.
\* The memcpy runs over the whole memory: the sketch stops there (halted).
WaitNotReady ==
  /\ stack # <<>> /\ Top.fn = "waitForResponse"
  /\ WaitContinues(Top, now)
  /\ LET hwAvail == SizeT(0 - 1)
         destIndex == Len(Top.responseDest)
         len == IF hwAvail >= 2 ^ 15 THEN hwAvail - 2 ^ 16 ELSE hwAvail
         bytesRead == SizeT(IF len <= 0 THEN len ELSE Min(len, Len(hwRx)))
         backlogLength == Len(_swarmBacklog)
     IN  /\ hwAvail > 0
         /\ IF SizeT(destIndex + hwAvail) < Top.destSize
            THEN IF SizeT(backlogLength + bytesRead) < _RxBuffSize
                 THEN /\ stack' = Push([fn |-> "halted"])
                      /\ fault' = Faulted(fault, "memcpy of SIZE_MAX bytes")
                 ELSE /\ stack' = ReplaceTop(
                           [Top EXCEPT !.responseDest =
                              SubSeq(@, 1, SizeT(destIndex + bytesRead))])
                      /\ fault' = fault
            ELSE UNCHANGED <<stack, fault>>
  /\ now' \in {now, MillisAfter(now, 1)}
  /\ UNCHANGED <<wire, hwRx, hwTx, memLow, _swarmBacklog, commandError,
                 _checkUnsolicitedMsgReentrant, callbacks, budget, fired,
                 lastCall, lastRet, pruneLog, framerVars>>

\* The loop has ended: the outcome is decided, the error text is extracted
\* from a valid error frame, pruneBacklog() runs and the call returns err.
WaitExit ==
  /\ stack # <<>> /\ Top.fn = "waitForResponse"
  /\ ~WaitContinues(Top, now)
  /\ LET f == Top
         err == WaitErr(f, _swarmBacklog)
     IN  /\ commandError' =
               IF err = SWARM_M138_ERROR_ERR
               THEN extractCommandError(Validated(f, _swarmBacklog))
               ELSE commandError
         /\ \E low \in {FALSE, memLow} :
            \E r \in PruneOutcomes(_swarmBacklog, low) :
              /\ _swarmBacklog' = r.backlog
              /\ fault' = Faulted(fault, r.fault)
              /\ pruneLog' = Append(pruneLog, [backlog |-> r.backlog,
                                               alloc |-> ~low])
         /\ lastRet' = [fn |-> "waitForResponse", err |-> err, at |-> now,
                        frame |-> f, backlog |-> _swarmBacklog,
                        depth |-> Len(stack) - 1,
                        commandError |-> commandError',
                        commandErrorBefore |-> commandError,
                        left |-> _swarmBacklog', hwTx |-> hwTx]
  /\ stack' = Pop
  /\ UNCHANGED <<now, wire, hwRx, hwTx, memLow,
                 _checkUnsolicitedMsgReentrant, callbacks, budget, fired,
                 lastCall, framerVars>>

-----------------------------------------------------------------------------
(* sscanf, as far as processUnsolicitedEvent uses it *)

IsSpace(c) == c = SPACE \/ (c >= 9 /\ c <= 13)
IsDigit(c) == c >= Ord("0") /\ c <= Ord("9")

\* The first position at or after pos of s that holds no white space.
SkipSpace(s, pos) ==
  IF pos > Len(s) THEN pos
  ELSE CHOOSE p \in pos..(Len(s) + 1) :
         /\ p > Len(s) \/ ~IsSpace(s[p])
         /\ \A q \in pos..(p - 1) : IsSpace(s[q])

\* The first position at or after pos, and before limit, that holds no digit.
SkipDigits(s, pos, limit) ==
  IF pos >= Min(limit, Len(s) + 1) THEN pos
  ELSE CHOOSE p \in pos..Min(limit, Len(s) + 1) :
         /\ p = Min(limit, Len(s) + 1) \/ ~IsDigit(s[p])
         /\ \A q \in pos..(p - 1) : IsDigit(s[q])

\* The first position at or after pos that holds a comma, or the end.
SkipToComma(s, pos) ==
  IF pos > Len(s) THEN pos
  ELSE CHOOSE p \in pos..(Len(s) + 1) :
         /\ p > Len(s) \/ s[p] = COMMA
         /\ \A q \in pos..(p - 1) : s[q] # COMMA

\* The directives of a format: "d" is %d (%wd with a width), "c" is %c,
\* "set" is %[^,], "ws" is white space and "lit" any other character.
Dir(k, x) == [k |-> k, x |-> x]
PctD == <<Dir("d", 0)>>
PctWD(w) == <<Dir("d", w)>>
PctC == <<Dir("c", 0)>>
PctSet == <<Dir("set", 0)>>
Lit(t) ==
  [i \in 1..Len(t) |->
     IF t[i] = " " THEN Dir("ws", 0) ELSE Dir("lit", Ord(t[i]))]

\* The size of the char arrays the %[^,] fields are stored in.
FieldSize == 8

\* %d (or %wd, limit being the position the width ends at) at the position
\* p, white space skipped: the position after the integer, 0 without one.
IntEnd(s, p, limit) ==
  LET q == IF p < limit /\ At(s, p) \in {Ord("-"), Ord("+")} THEN p + 1 ELSE p
  IN  IF SkipDigits(s, q, limit) = q THEN 0 ELSE SkipDigits(s, q, limit)

\* One directive d of a format, the scan st standing at st.pos with st.n
\* fields assigned: the scan after it, stopped when the input does not match.
ScanDirective(s, st, d) ==
  LET pos == st.pos
      stop == [st EXCEPT !.stopped = TRUE]
  IN  CASE d.k = "lit" ->
             IF At(s, pos) = d.x THEN [st EXCEPT !.pos = pos + 1] ELSE stop
        [] d.k = "ws" -> [st EXCEPT !.pos = SkipSpace(s, pos)]
        [] d.k = "c" ->
             IF pos <= Len(s) THEN [st EXCEPT !.pos = pos + 1, !.n = @ + 1]
             ELSE stop
        [] d.k = "set" ->
             LET e == SkipToComma(s, pos)
             IN  IF e = pos THEN stop
                 ELSE [st EXCEPT !.pos = e, !.n = @ + 1,
                                 !.over = @ \/ (e - pos) >= FieldSize]
        [] d.k = "d" ->
             LET e == IntEnd(s, SkipSpace(s, pos),
                             IF d.x = 0 THEN Len(s) + 1
                             ELSE SkipSpace(s, pos) + d.x)
             IN  IF e = 0 THEN stop ELSE [st EXCEPT !.pos = e, !.n = @ + 1]

\* The directives of fmt one after the other, until one stops the scan.  The
\* scan after the first half of them is worked out before the second half is
\* entered.
RECURSIVE ScanDirectives(_, _, _)
ScanDirectives(s, st, fmt) ==
  IF st.stopped \/ fmt = <<>> THEN st
  ELSE IF Len(fmt) = 1 THEN ScanDirective(s, st, fmt[1])
  ELSE CHOOSE last \in
         { ScanDirectives(s, g, SubSeq(fmt, Len(fmt) \div 2 + 1, Len(fmt))) :
             g \in {ScanDirectives(s, st, SubSeq(fmt, 1, Len(fmt) \div 2))} } :
         TRUE

\* sscanf(s + pos - 1, fmt, ...) with n fields assigned so far: the number of
\* fields assigned when the scan stops, and whether a %[^,] field with its NUL
\* was longer than the array it is stored in.
Scan(s, pos, fmt, n, over) ==
  LET last == ScanDirectives(s, [pos |-> pos, n |-> n, over |-> over,
                                 stopped |-> FALSE], fmt)
  IN  [n |-> last.n, over |-> last.over]

sscanf(s, pos, fmt) == Scan(s, pos, fmt, 0, FALSE)

-----------------------------------------------------------------------------
(* processUnsolicitedEvent *)

FMT_DT ==
  Lit(<<"$", "D", "T", " ">>) \o PctWD(4) \o PctWD(2) \o PctWD(2) \o PctWD(2)
    \o PctWD(2) \o PctWD(2) \o Lit(<<",">>) \o PctC \o Lit(<<"*">>)
FMT_GJ ==
  Lit(<<"$", "G", "J", " ">>) \o PctD \o Lit(<<",">>) \o PctD \o Lit(<<"*">>)
FMT_GN ==
  Lit(<<"$", "G", "N", " ">>) \o PctD \o Lit(<<".">>) \o PctSet \o Lit(<<",">>)
    \o PctD \o Lit(<<".">>) \o PctSet \o Lit(<<",">>) \o PctD \o Lit(<<",">>)
    \o PctD \o Lit(<<",">>) \o PctD \o Lit(<<"*">>)
FMT_GS ==
  Lit(<<"$", "G", "S", " ">>) \o PctD \o Lit(<<",">>) \o PctD \o Lit(<<",">>)
    \o PctD \o Lit(<<",">>) \o PctD \o Lit(<<",">>) \o PctC \o PctC
    \o Lit(<<"*">>)
FMT_PW ==
  Lit(<<"$", "P", "W", " ">>) \o PctD \o Lit(<<".">>) \o PctSet \o Lit(<<",">>)
    \o PctD \o Lit(<<".">>) \o PctSet \o Lit(<<",">>)
    \o PctD \o Lit(<<".">>) \o PctSet \o Lit(<<",">>)
    \o PctD \o Lit(<<".">>) \o PctSet \o Lit(<<",">>)
    \o PctD \o Lit(<<".">>) \o PctSet \o Lit(<<"*">>)
FMT_RSSI ==
  Lit(<<"R", "S", "S", "I", "=">>) \o PctD
    \o Lit(<<",", "S", "N", "R", "=">>) \o PctD
    \o Lit(<<",", "F", "D", "E", "V", "=">>) \o PctD \o Lit(<<",">>)
FMT_RT ==
  Lit(<<"$", "R", "T", " ">>) \o
  Lit(<<"R", "S", "S", "I", "=">>) \o PctD
    \o Lit(<<",", "S", "N", "R", "=">>) \o PctD
    \o Lit(<<",", "F", "D", "E", "V", "=">>) \o PctD
    \o Lit(<<",", "T", "S", "=">>) \o PctD \o Lit(<<"-">>) \o PctD
    \o Lit(<<"-">>) \o PctD \o Lit(<<"T">>) \o PctD \o Lit(<<":">>) \o PctD
    \o Lit(<<":">>) \o PctD \o Lit(<<",", "D", "I", "=", "0", "x">>)
FMT_RT_BACKGROUND ==
  Lit(<<"$", "R", "T", " ", "R", "S", "S", "I", "=">>) \o PctD \o Lit(<<"*">>)

\* The blocks of processUnsolicitedEvent that scan fields: the pattern looked
\* for, how far from it the asterix has to be, the format and the number of
\* fields that have to be assigned.
FieldBlocks ==
  [DT |-> [tag |-> Str(<<"$", "D", "T", " ">>), min |-> 20, fmt |-> FMT_DT, ret |-> 7],
   GJ |-> [tag |-> Str(<<"$", "G", "J", " ">>), min |-> 3, fmt |-> FMT_GJ, ret |-> 2],
   GN |-> [tag |-> Str(<<"$", "G", "N", " ">>), min |-> 10, fmt |-> FMT_GN, ret |-> 7],
   GS |-> [tag |-> Str(<<"$", "G", "S", " ">>), min |-> 11, fmt |-> FMT_GS, ret |-> 6],
   PW |-> [tag |-> Str(<<"$", "P", "W", " ">>), min |-> 10, fmt |-> FMT_PW, ret |-> 10],
   RT |-> [tag |-> Str(<<"$", "R", "T", " ">>), min |-> 9, fmt |-> FMT_RT, ret |-> 9]]

\* The sscanf of a block is reached: the pattern is in the event, an asterix
\* follows it, far enough.
FarAsterix(event, eventStart, min) ==
  /\ eventStart # 0
  /\ strchr(event, eventStart, STAR) # 0
  /\ strchr(event, eventStart, STAR) >= eventStart + min

BlockScans(b, event) == FarAsterix(event, strstr(event, 1, b.tag), b.min)

BlockFields(b, event) == sscanf(event, strstr(event, 1, b.tag), b.fmt)

\* The keywords of a $M138 message, in the order they are looked for.
M138_KEYWORDS ==
  << Str(<<"B", "O", "O", "T", ",", "A", "B", "O", "R", "T">>),
     Str(<<"B", "O", "O", "T", ",", "D", "E", "V", "I", "C", "E", "I", "D">>),
     Str(<<"B", "O", "O", "T", ",", "P", "O", "W", "E", "R", "O", "N">>),
     Str(<<"B", "O", "O", "T", ",", "R", "U", "N", "N", "I", "N", "G">>),
     Str(<<"B", "O", "O", "T", ",", "U", "P", "D", "A", "T", "E", "D">>),
     Str(<<"B", "O", "O", "T", ",", "V", "E", "R", "S", "I", "O", "N">>),
     Str(<<"B", "O", "O", "T", ",", "R", "E", "S", "T", "A", "R", "T">>),
     Str(<<"B", "O", "O", "T", ",", "S", "H", "U", "T", "D", "O", "W", "N">>),
     Str(<<"D", "A", "T", "E", "T", "I", "M", "E">>),
     Str(<<"P", "O", "S", "I", "T", "I", "O", "N">>),
     Str(<<"D", "E", "B", "U", "G">>),
     Str(<<"E", "R", "R", "O", "R">>) >>

\* Does the block of a tag reach its return (true)?  Each takes the event as
\* checkUnsolicitedMsg passes it: one line without its line feed.
FieldBlockReturns(t, event) ==
  /\ BlockScans(FieldBlocks[t], event)
  /\ BlockFields(FieldBlocks[t], event).n = FieldBlocks[t].ret

ReceiveTestReturns(event) ==
  /\ BlockScans(FieldBlocks.RT, event)
  /\ \/ BlockFields(FieldBlocks.RT, event).n = 9
     \/ sscanf(event, strstr(event, 1, FieldBlocks.RT.tag),
               FMT_RT_BACKGROUND).n = 1

\* The $M138 block: the first keyword from the i-th on that is found at or
\* after msg sets the status; without one, data before the asterix makes the
\* status UNKNOWN, and the block returns unless the status stays INVALID.
RECURSIVE FirstKeyword(_, _, _)
FirstKeyword(event, msg, i) ==
  IF i > Len(M138_KEYWORDS) THEN 0
  ELSE IF strstr(event, msg, M138_KEYWORDS[i]) # 0 THEN i
  ELSE FirstKeyword(event, msg, i + 1)

ModemStatusFrom(event, eventStart) ==
  /\ FarAsterix(event, eventStart, 6)
  /\ \/ FirstKeyword(event, eventStart + 6, 1) # 0
     \/ (IF At(event, eventStart + 6) = COMMA
         THEN eventStart + 7 ELSE eventStart + 6)
          < strchr(event, eventStart, STAR)

ModemStatusReturns(event) ==
  ModemStatusFrom(event, strstr(event, 1, Str(<<"$", "M", "1", "3", "8", " ">>)))

SleepWakeReturns(event) ==
  LET eventStart == strstr(event, 1, Str(<<"$", "S", "L", " ", "W", "A", "K", "E", ",">>))
  IN  /\ eventStart # 0
      /\ strchr(event, eventStart, STAR) # 0
      /\ \/ strstr(event, eventStart, Str(<<"W", "A", "K", "E", ",", "G", "P", "I", "O">>)) # 0
         \/ strstr(event, eventStart, Str(<<"W", "A", "K", "E", ",", "S", "E", "R", "I", "A", "L">>)) # 0
         \/ strstr(event, eventStart, Str(<<"W", "A", "K", "E", ",", "T", "I", "M", "E">>)) # 0

\* The $RD and the $TD SENT blocks: the three fields after "RSSI=" are
\* assigned and a comma follows "FDEV=".
SignalFieldsAt(event, paramPtr) ==
  /\ paramPtr # 0
  /\ sscanf(event, paramPtr, FMT_RSSI).n = 3
  /\ strstr(event, paramPtr, Str(<<"F", "D", "E", "V", "=">>)) # 0
  /\ strchr(event, strstr(event, paramPtr, Str(<<"F", "D", "E", "V", "=">>)),
            COMMA) # 0

SignalBlockFrom(event, eventStart) ==
  /\ eventStart # 0
  /\ strchr(event, eventStart, STAR) # 0
  /\ SignalFieldsAt(event,
                    strstr(event, eventStart, Str(<<"R", "S", "S", "I", "=">>)))

SignalBlockReturns(tag, event) ==
  SignalBlockFrom(event, strstr(event, 1, tag))

\* The order of the blocks, and those that allocate the struct (or the data
\* buffer) they fill.
TagOrder == <<"DT", "GJ", "GN", "GS", "PW", "RT", "M138", "SL", "RD", "TD">>
Allocating == {"DT", "GJ", "GN", "GS", "PW", "RT", "M138"}

BlockReturns(t, event) ==
  CASE t \in {"DT", "GJ", "GN", "GS", "PW"} -> FieldBlockReturns(t, event)
    [] t = "RT" -> ReceiveTestReturns(event)
    [] t = "M138" -> ModemStatusReturns(event)
    [] t = "SL" -> SleepWakeReturns(event)
    [] t = "RD" -> SignalBlockReturns(Str(<<"$", "R", "D", " ">>), event)
    [] t = "TD" ->
         SignalBlockReturns(Str(<<"$", "T", "D", " ", "S", "E", "N", "T">>), event)

\* Undefined behaviour inside a block: a %[^,] field longer than its array,
\* or nine fields of $RT assigned without the "DI=0x" that is then looked up.
BlockOverruns(t, event) ==
  CASE t \in {"GN", "PW"} ->
         BlockScans(FieldBlocks[t], event) /\ BlockFields(FieldBlocks[t], event).over
    [] t = "RT" ->
         /\ BlockScans(FieldBlocks.RT, event)
         /\ BlockFields(FieldBlocks.RT, event).n = 9
         /\ strstr(event, strstr(event, 1, FieldBlocks.RT.tag),
                   Str(<<"D", "I", "=", "0", "x">>)) = 0
    [] OTHER -> FALSE

\* The first block from the i-th on that is entered (its allocation has not
\* failed) and returns; 0 when none does.
RECURSIVE FirstReturning(_, _, _)
FirstReturning(i, event, failed) ==
  IF i > Len(TagOrder) THEN 0
  ELSE IF TagOrder[i] \notin failed /\ BlockReturns(TagOrder[i], event) THEN i
  ELSE FirstReturning(i + 1, event, failed)

\* processUnsolicitedEvent(event), the allocations of the blocks in failed
\* having returned NULL: the tag of the block that returned true ("none" when
\* the call returns false), and whether a block overran.
ReturnedAt(i, event, failed) ==
  [tag |-> IF i = 0 THEN "none" ELSE TagOrder[i],
   fault |-> IF \E j \in 1..(IF i = 0 THEN Len(TagOrder) ELSE i) :
                  TagOrder[j] \notin failed /\ BlockOverruns(TagOrder[j], event)
             THEN "processUnsolicitedEvent overrun" ELSE "none"]

processUnsolicitedEvent(event, failed) ==
  ReturnedAt(FirstReturning(1, event, failed), event, failed)

\* The allocations that may fail while an event is processed.
AllocFailures(event, low) ==
  IF low THEN SUBSET {t \in Allocating : BlockReturns(t, event)} ELSE {{}}

-----------------------------------------------------------------------------
(* checkUnsolicitedMsg *)

\* event == NULL
NoEvent == [null |-> TRUE, text |-> <<>>]
Event(text) == [null |-> FALSE, text |-> text]

\* preservedEvent == NULL
NullSave == 0 - 1

\* strtok_r(..., "\n", &preservedEvent) on the working buffer rx, scanning from
\* the offset from: the event returned and the new preservedEvent.  A token
\* that runs to the end of the string leaves preservedEvent at the terminating
\* NUL or NULL, as the C library of the build does it.
RECURSIVE SkipLF(_, _)
SkipLF(rx, from) ==
  IF from < Len(rx) /\ rx[from + 1] = LF THEN SkipLF(rx, from + 1) ELSE from

\* A variant that keeps its position in one place for every caller, as
\* strtok does: the loop of pruneBacklog has left it at NULL, and a call that
\* goes on from a saved position returns no event.
strtok(rx, from) ==
  IF from # 0 THEN {[event |-> NoEvent, save |-> NullSave]}
  ELSE
    LET start == SkipLF(rx, 0)
        lf == strchr(rx, start + 1, LF)
    IN  IF start >= Len(rx)
        THEN {[event |-> NoEvent, save |-> NullSave]}
        ELSE IF lf # 0
        THEN {[event |-> Event(SubSeq(rx, start + 1, lf - 1)), save |-> lf]}
        ELSE {[event |-> Event(SubSeq(rx, start + 1, Len(rx))), save |-> NullSave]}

strtok_r(rx, from) ==
  IF from = NullSave THEN {[event |-> NoEvent, save |-> NullSave]}
  ELSE
    LET start == SkipLF(rx, from)
        lf == strchr(rx, start + 1, LF)
    IN  IF start >= Len(rx)
        THEN {[event |-> NoEvent, save |-> NullSave]}
        ELSE IF lf # 0
        THEN {[event |-> Event(SubSeq(rx, start + 1, lf - 1)), save |-> lf]}
        ELSE {[event |-> Event(SubSeq(rx, start + 1, Len(rx))), save |-> s] :
                s \in {Len(rx), NullSave}}

\* A variant of the guard that lets every call in.
GuardOpen(reentrant) == FALSE

\* The test at the top of checkUnsolicitedMsg.
Reentered(reentrant) == reentrant = TRUE

\* History: a return of checkUnsolicitedMsg without a pass over events.
\* deleted is what the delete of event at the end of the call was given:
\* "nothing" when the call returned before it, "NULL", or "garbage" when event
\* was never assigned and held something else.
CumReturned(ret, why, deleted) ==
  [fn |-> "checkUnsolicitedMsg", ret |-> ret, why |-> why, at |-> now,
   depth |-> Len(stack), entry |-> OnEntry, events |-> <<>>, fired |-> <<>>,
   buffer |-> <<>>, appended |-> 0, moved |-> <<>>, left |-> _swarmBacklog,
   deleted |-> deleted]

\* checkUnsolicitedMsg() is called.  A call made while one is running returns
\* false at once.  Otherwise the flag is set and the working buffer allocated
\* (a failed allocation returns false); the Backlog is moved to the working
\* buffer and the port is sampled.  With neither Backlog nor bytes waiting the
\* call runs to its end: event is deleted as it was declared, the flag is
\* cleared and false returned.
CheckUnsolicitedMsg ==
  /\ MayCall
  /\ budget > 0
  /\ budget' = budget - 1
  /\ lastCall' = Called("checkUnsolicitedMsg")
  /\ IF Reentered(_checkUnsolicitedMsgReentrant)
     THEN /\ lastRet' = CumReturned(FALSE, "reentered", "nothing")
          /\ UNCHANGED <<_checkUnsolicitedMsgReentrant, _swarmBacklog, stack,
                         fault>>
     ELSE \/ /\ memLow
             /\ _checkUnsolicitedMsgReentrant' = TRUE
             /\ lastRet' = CumReturned(FALSE, "no memory", "nothing")
             /\ UNCHANGED <<_swarmBacklog, stack, fault>>
          \/ /\ (hwAvailable > 0 \/ Len(_swarmBacklog) > 0)
             /\ _checkUnsolicitedMsgReentrant' = TRUE
             /\ _swarmBacklog' = <<>>
             /\ stack' = Push([fn |-> "checkUnsolicitedMsg", pc |-> "collect",
                               timeIn |-> now, hwAvail |-> hwAvailable,
                               _swarmRxBuffer |-> _swarmBacklog,
                               handled |-> FALSE, event |-> NoEvent,
                               preservedEvent |-> 0,
                               entry |-> OnEntry, events |-> <<>>,
                               appended |-> 0, moved |-> <<>>])
             /\ UNCHANGED <<lastRet, fault>>
          \/ /\ ~(hwAvailable > 0 \/ Len(_swarmBacklog) > 0)
             /\ _checkUnsolicitedMsgReentrant' = FALSE
             /\ \E event \in {"NULL", "garbage"} :
                  /\ lastRet' = CumReturned(FALSE, "nothing to do", event)
                  /\ fault' = IF event = "NULL" THEN fault
                              ELSE Faulted(fault, "delete of uninitialised event")
             /\ UNCHANGED <<_swarmBacklog, stack>>
  /\ UNCHANGED <<now, wire, hwRx, hwTx, memLow, commandError, callbacks, fired,
                 pruneLog, framerVars>>

\* The while condition of the collection loop.
CollectContinues(f, t) ==
  /\ MillisBelow(MillisSince(t, f.timeIn), _rxWindowMillis)
  /\ (Len(f._swarmRxBuffer) + f.hwAvail) < _RxBuffSize

\* A variant that puts the bytes read before the content of the working
\* buffer.
CollectReadAhead ==
  /\ stack # <<>> /\ Top.fn = "checkUnsolicitedMsg" /\ Top.pc = "collect"
  /\ CollectContinues(Top, now)
  /\ Top.hwAvail > 0
  /\ hwRx' = SubSeq(hwRx, Top.hwAvail + 1, Len(hwRx))
  /\ stack' = ReplaceTop([Top EXCEPT
                 !._swarmRxBuffer = SubSeq(hwRx, 1, Top.hwAvail) \o @,
                 !.timeIn = now,
                 !.hwAvail = Len(hwRx) - Top.hwAvail])
  /\ UNCHANGED <<now, wire, hwTx, memLow, _swarmBacklog, commandError,
                 _checkUnsolicitedMsgReentrant, callbacks, budget, fired,
                 lastCall, lastRet, fault, pruneLog, framerVars>>

\* One pass of the collection loop with bytes waiting.
CollectRead ==
  /\ stack # <<>> /\ Top.fn = "checkUnsolicitedMsg" /\ Top.pc = "collect"
  /\ CollectContinues(Top, now)
  /\ Top.hwAvail > 0
  /\ hwRx' = SubSeq(hwRx, Top.hwAvail + 1, Len(hwRx))
  /\ stack' = ReplaceTop([Top EXCEPT
                 !._swarmRxBuffer = @ \o SubSeq(hwRx, 1, Top.hwAvail),
                 !.timeIn = now,
                 !.hwAvail = Len(hwRx) - Top.hwAvail])
  /\ UNCHANGED <<now, wire, hwTx, memLow, _swarmBacklog, commandError,
                 _checkUnsolicitedMsgReentrant, callbacks, budget, fired,
                 lastCall, lastRet, fault, pruneLog, framerVars>>

\* One pass of the collection loop with nothing waiting: delay(1).
CollectDelay ==
  /\ stack # <<>> /\ Top.fn = "checkUnsolicitedMsg" /\ Top.pc = "collect"
  /\ CollectContinues(Top, now)
  /\ Top.hwAvail = 0
  /\ now' = MillisAfter(now, 1)
  /\ stack' = ReplaceTop([Top EXCEPT !.hwAvail = hwAvailable])
  /\ UNCHANGED <<wire, hwRx, hwTx, memLow, _swarmBacklog, commandError,
                 _checkUnsolicitedMsgReentrant, callbacks, budget, fired,
                 lastCall, lastRet, fault, pruneLog, framerVars>>

\* The collection loop ends: the first event is split off the working buffer.
CollectDone ==
  /\ stack # <<>> /\ Top.fn = "checkUnsolicitedMsg" /\ Top.pc = "collect"
  /\ ~CollectContinues(Top, now)
  /\ \E tok \in strtok_r(Top._swarmRxBuffer, 0) :
       stack' = ReplaceTop([Top EXCEPT !.pc = "events", !.event = tok.event,
                                       !.preservedEvent = tok.save])
  /\ UNCHANGED <<now, wire, hwRx, hwTx, memLow, _swarmBacklog, commandError,
                 _checkUnsolicitedMsgReentrant, callbacks, budget, fired,
                 lastCall, lastRet, fault, pruneLog, framerVars>>

\* A variant of the test that lets every event through.
AnyEvent(event) == TRUE

\* The if statement at the top of the event loop.
EventValid(event) == checkChecksum(event) = SWARM_M138_ERROR_SUCCESS

\* A variant that counts an event as handled only if a callback was invoked
\* for it.
EventProcessedIfCalled(event, r) ==
  /\ fault' = Faulted(fault, r.fault)
  /\ fired' = IF r.tag \in callbacks THEN Append(fired, r.tag) ELSE fired
  /\ stack' =
       ReplaceTop([Top EXCEPT !.pc = "appended",
                              !.handled = @ \/ r.tag \in callbacks,
                              !.events = Append(@, [text |-> event,
                                                    tag |-> r.tag])])
         \o (IF r.tag \in callbacks
             THEN <<[fn |-> "callback", tag |-> r.tag]>> ELSE <<>>)

\* What processing an event changes, r being what processUnsolicitedEvent
\* returned: handled is set, a block's overrun is noted, and the callback of
\* the block that returned is running if it is registered.
EventProcessed(event, r) ==
  /\ fault' = Faulted(fault, r.fault)
  /\ fired' = IF r.tag \in callbacks THEN Append(fired, r.tag) ELSE fired
  /\ stack' =
       ReplaceTop([Top EXCEPT !.pc = "appended",
                              !.handled = @ \/ r.tag # "none",
                              !.events = Append(@, [text |-> event,
                                                    tag |-> r.tag])])
         \o (IF r.tag \in callbacks
             THEN <<[fn |-> "callback", tag |-> r.tag]>> ELSE <<>>)

\* The top of the event loop: the checksum of the event is checked and a
\* valid event goes to processUnsolicitedEvent, which invokes the callback of
\* the block that decodes it if one is registered.
EventProcess ==
  /\ stack # <<>> /\ Top.fn = "checkUnsolicitedMsg" /\ Top.pc = "events"
  /\ ~Top.event.null
  /\ \E failed \in AllocFailures(Top.event.text,
                                 memLow /\ EventValid(Top.event.text)) :
       EventProcessed(Top.event.text,
                      IF EventValid(Top.event.text)
                      THEN processUnsolicitedEvent(Top.event.text, failed)
                      ELSE [tag |-> "none", fault |-> "none"])
  /\ UNCHANGED <<now, wire, hwRx, hwTx, memLow, _swarmBacklog, commandError,
                 _checkUnsolicitedMsgReentrant, callbacks, budget, lastCall,
                 lastRet, pruneLog, framerVars>>

\* The callback returns to processUnsolicitedEvent.
CallbackReturn ==
  /\ stack # <<>> /\ Top.fn = "callback"
  /\ stack' = Pop
  /\ UNCHANGED <<now, wire, hwRx, hwTx, memLow, _swarmBacklog, commandError,
                 _checkUnsolicitedMsgReentrant, callbacks, budget, fired,
                 lastCall, lastRet, fault, pruneLog, framerVars>>

\* The rest of the event loop: what has come into the Backlog is moved to the
\* end of the working buffer if it fits, and the next event is split off.
EventNext ==
  /\ stack # <<>> /\ Top.fn = "checkUnsolicitedMsg" /\ Top.pc = "appended"
  /\ LET moved == /\ Len(_swarmBacklog) > 0
                  /\ (Len(Top._swarmRxBuffer) + Len(_swarmBacklog)) < _RxBuffSize
         rx == IF moved THEN Top._swarmRxBuffer \o _swarmBacklog
               ELSE Top._swarmRxBuffer
     IN  /\ _swarmBacklog' = IF moved THEN <<>> ELSE _swarmBacklog
         /\ \E tok \in strtok_r(rx, Top.preservedEvent) :
              stack' = ReplaceTop([Top EXCEPT !.pc = "events",
                                              !._swarmRxBuffer = rx,
                                              !.appended =
                                                 IF moved THEN @ + 1 ELSE @,
                                              !.moved =
                                                 IF moved
                                                 THEN @ \o _swarmBacklog
                                                 ELSE @,
                                              !.event = tok.event,
                                              !.preservedEvent = tok.save])
  /\ UNCHANGED <<now, wire, hwRx, hwTx, memLow, commandError,
                 _checkUnsolicitedMsgReentrant, callbacks, budget, fired,
                 lastCall, lastRet, fault, pruneLog, framerVars>>

\* No event is left: the working buffer is freed, the flag cleared and
\* handled returned.
CheckUnsolicitedMsgReturn ==
  /\ stack # <<>> /\ Top.fn = "checkUnsolicitedMsg" /\ Top.pc = "events"
  /\ Top.event.null
  /\ _checkUnsolicitedMsgReentrant' = FALSE
  /\ stack' = Pop
  /\ lastRet' = [fn |-> "checkUnsolicitedMsg", ret |-> Top.handled,
                 why |-> "done", at |-> now, depth |-> Len(stack) - 1,
                 entry |-> Top.entry, events |-> Top.events,
                 fired |-> SubSeq(fired, Top.entry.fired + 1, Len(fired)),
                 buffer |-> Top._swarmRxBuffer, appended |-> Top.appended,
                 moved |-> Top.moved,
                 left |-> _swarmBacklog, deleted |-> "NULL"]
  /\ UNCHANGED <<now, wire, hwRx, hwTx, memLow, _swarmBacklog, commandError,
                 callbacks, budget, fired, lastCall, fault, pruneLog,
                 framerVars>>

-----------------------------------------------------------------------------
(* Commands and modem traffic *)

SWARM_M138_STANDARD_RESPONSE_TIMEOUT == 4
MaxCalls == 1

\* "$" + text + "*" with the checksum and the line feed, as the modem frames
\* its own messages.
Frame(body) == addChecksumLF(<<DOLLAR>> \o body \o <<STAR>>)

\* The same frame with the checksum digits "00".
BadFrame(body) == <<DOLLAR>> \o body \o <<STAR, Ord("0"), Ord("0"), LF>>

DT_PREFIX == Str(<<"$", "D", "T", " ">>)
DT_OK_PREFIX == Str(<<"$", "D", "T", " ", "O", "K", "*">>)
DT_ERR_PREFIX == Str(<<"$", "D", "T", " ", "E", "R", "R">>)

\* getDateTime and setDateTimeRate, as the arguments they pass to
\* sendCommandWithResponse.
Requests ==
  { [command |-> Frame(Str(<<"D", "T", " ", "@">>)),
     expectedResponseStart |-> DT_PREFIX,
     expectedErrorStart |-> DT_ERR_PREFIX,
     destSize |-> _RxBuffSize,
     timeout |-> SWARM_M138_STANDARD_RESPONSE_TIMEOUT],
    [command |-> Frame(Str(<<"D", "T", " ", "9">>)),
     expectedResponseStart |-> DT_OK_PREFIX,
     expectedErrorStart |-> DT_ERR_PREFIX,
     destSize |-> _RxBuffSize,
     timeout |-> SWARM_M138_STANDARD_RESPONSE_TIMEOUT] }

DateTimeBody == Str(<<"D", "T", " ", "7", ",", "V">>)
DateTimeErrBody == Str(<<"D", "T", " ", "E", "R", "R", ",", "B", "A", "D">>)
GeoBody == Str(<<"G", "N", " ", "1">>)
ReceiveBody ==
  Str(<<"R", "D", " ", "R", "S", "S", "I", "=", "-", "1", ",", "S", "N", "R",
        "=", "2", ",", "F", "D", "E", "V", "=", "3", ",", "4", "a">>)

\* What is waiting or arrives before the reply: nothing, an unsolicited
\* message with a good or a bad checksum, a line of no interest.
StalePieces ==
  { <<>>, Frame(GeoBody), BadFrame(GeoBody), Str(<<"x">>) \o <<LF>> }

\* What the modem sends in reply: nothing, a reply or an error with a good or
\* a bad checksum, frames that are cut short, and a line as long as the
\* response buffer.
ReplyPieces ==
  { <<>>,
    Frame(DateTimeBody), BadFrame(DateTimeBody),
    Frame(DateTimeErrBody), BadFrame(DateTimeErrBody),
    Frame(Str(<<"D", "T", " ", "O", "K">>)),
    Str(<<"$", "D", "T", " ", "7">>),
    Str(<<"$", "D">>),
    PadLine(_RxBuffSize) }

\* The bursts a piece arrives in: all at once, or cut in two inside its first
\* characters or before its last one.
Bursts(piece) ==
  IF piece = <<>> THEN {<<>>}
  ELSE {<<piece>>} \cup
       { <<SubSeq(piece, 1, k), SubSeq(piece, k + 1, Len(piece))>> :
           k \in {2, Len(piece) - 1} \cap (1..(Len(piece) - 1)) }

WaitStreams ==
  UNION { { a \o b : a \in Bursts(stale), b \in Bursts(reply) } :
            stale \in StalePieces, reply \in ReplyPieces }

\* A date/time reply "$DT 20230101000000,V*hh\n" with the given two digits
\* after the asterix, as the modem puts it on the transport.
DateTimeReply(digits) ==
  Str(<<"$", "D", "T", " ", "2", "0", "2", "3", "0", "1", "0", "1",
        "0", "0", "0", "0", "0", "0", ",", "V", "*">>) \o digits \o <<LF>>

\* The reply in one or two pieces, and the reply with an error message of
\* the modem close behind it.
ReplyStreams ==
  UNION { Bursts(DateTimeReply(digits)) :
            digits \in {Str(<<"1", "B">>), Str(<<"4", "9">>)} }
  \cup { <<DateTimeReply(Str(<<"4", "9">>)), Frame(DateTimeErrBody)>> }

\* What millis() reads when the sketch starts to use the engine: just after
\* power-up, or (after 49.7 days) a little before the clock wraps.
ClockStarts ==
  { Millis(0, 0),
    Millis(HalfWord - 1, HalfWord - SWARM_M138_STANDARD_RESPONSE_TIMEOUT + 1) }

\* The Backlog a command finds is empty, or holds one or two received
\* messages that earlier commands have left for checkUnsolicitedMsg; in the
\* second case a date/time reply that comes late is on its way.
InitWait ==
  /\ now \in ClockStarts
  /\ \/ /\ _swarmBacklog = <<>>
        /\ wire \in WaitStreams \cup ReplyStreams
     \/ /\ _swarmBacklog \in { Frame(ReceiveBody),
                               Frame(ReceiveBody) \o Frame(ReceiveBody) }
        /\ wire \in { a \o b : a \in Bursts(Frame(DateTimeBody)),
                               b \in {<<>>, <<BadFrame(DateTimeBody)>>} }
  /\ hwRx = <<>>
  /\ hwTx = <<>>
  /\ memLow \in BOOLEAN
  /\ commandError = <<>>
  /\ _checkUnsolicitedMsgReentrant = FALSE
  /\ callbacks = {}
  /\ stack = <<>>
  /\ budget = MaxCalls
  /\ fired = <<>>
  /\ lastCall = NoCall
  /\ lastRet = NoReturn
  /\ fault = "none"
  /\ pruneLog = <<>>
  /\ FramerIdle

\* The sketch issues a command.
HostCommand == stack = <<>> /\ \E req \in Requests : SendCommandWithResponse(req)

NextWait ==
  \/ Deliver
  \/ HostCommand
  \/ DrainRead
  \/ DrainDelay
  \/ DrainDone
  \/ WaitRead
  \/ WaitPanic
  \/ WaitDelay
  \/ WaitExit

SpecWait == InitWait /\ [][NextWait]_vars

\* The same machine on a transport that is not always ready (the Qwiic
\* bridge): a poll of waitForResponse may find the count -1.  In the drain of
\* sendCommand, where the count is kept in an int, a count of -1 takes the
\* same path as a count of 0.  One of the streams is a reply with the dollar
\* of a message that was cut short just before it.
PollStreams ==
  UNION { Bursts(piece) :
            piece \in {Frame(DateTimeBody), Frame(DateTimeErrBody)} }
  \cup { <<Frame(GeoBody), Frame(DateTimeBody)>>, <<PadLine(_RxBuffSize)>> }
  \cup Bursts(<<DOLLAR>> \o Frame(DateTimeBody))

InitPoll ==
  /\ now = Millis(0, 0)
  /\ _swarmBacklog \in {<<>>, Frame(ReceiveBody)}
  /\ wire \in PollStreams
  /\ hwRx = <<>>
  /\ hwTx = <<>>
  /\ memLow = FALSE
  /\ commandError = <<>>
  /\ _checkUnsolicitedMsgReentrant = FALSE
  /\ callbacks = {}
  /\ stack = <<>>
  /\ budget = MaxCalls
  /\ fired = <<>>
  /\ lastCall = NoCall
  /\ lastRet = NoReturn
  /\ fault = "none"
  /\ pruneLog = <<>>
  /\ FramerIdle

NextPoll ==
  \/ NextWait
  \/ WaitNotReady

SpecPoll == InitPoll /\ [][NextPoll]_vars

-----------------------------------------------------------------------------
(* The dispatcher: a Backlog left by earlier commands, unsolicited messages *)
(* on the wire, callbacks that return, call checkUnsolicitedMsg again or    *)
(* issue a command.                                                         *)

MaxDispatchCalls == 3

PowerBody ==
  Str(<<"P", "W", " ", "1", ".", "2", ",", "3", ".", "4", ",", "5", ".", "6",
        ",", "7", ".", "8", ",", "9", ".", "0">>)

\* A receive test message of a satellite pass cut short after its first
\* field: the signal to noise ratio is no number.
ReceiveTestBody ==
  Str(<<"R", "T", " ", "R", "S", "S", "I", "=", "-", "9", ",", "S", "N", "R",
        "=", "x">>)

\* What earlier commands have left in the Backlog: nothing, or a received
\* message with a good or a bad checksum.
Leftovers == { <<>>, Frame(ReceiveBody), BadFrame(ReceiveBody) }

\* What the modem sends: nothing, a power status message with a good or a bad
\* checksum or without its line feed, a date/time reply that is no
\* unsolicited message, and a line as long as the working buffer.
FreshPieces ==
  { <<>>,
    Frame(PowerBody), BadFrame(PowerBody),
    SubSeq(Frame(PowerBody), 1, Len(Frame(PowerBody)) - 1),
    Frame(DateTimeBody),
    PadLine(_RxBuffSize) }

\* The bursts of one piece, or a power status message with, after it, the
\* date/time reply to a command that a callback issues.
DispatchStreams ==
  UNION { Bursts(piece) : piece \in FreshPieces }
    \cup { <<Frame(PowerBody), Frame(DateTimeBody)>>,
           <<Frame(ReceiveTestBody)>> }

\* The callbacks the sketch has registered in setup().
CallbackSets == { {"RD"}, {"RD", "PW", "RT"} }

InitDispatch ==
  /\ now = Millis(0, 0)
  /\ wire \in DispatchStreams
  /\ hwRx = <<>>
  /\ hwTx = <<>>
  /\ memLow \in BOOLEAN
  /\ _swarmBacklog \in Leftovers
  /\ commandError = <<>>
  /\ _checkUnsolicitedMsgReentrant = FALSE
  /\ callbacks \in CallbackSets
  /\ stack = <<>>
  /\ budget = MaxDispatchCalls
  /\ fired = <<>>
  /\ lastCall = NoCall
  /\ lastRet = NoReturn
  /\ fault = "none"
  /\ pruneLog = <<>>
  /\ FramerIdle

\* The sketch's loop() calls checkUnsolicitedMsg.
HostDispatch == stack = <<>> /\ CheckUnsolicitedMsg

\* A callback calls checkUnsolicitedMsg.
CallbackDispatch == stack # <<>> /\ CheckUnsolicitedMsg

\* A callback issues a command: getDateTime.
CallbackCommand ==
  /\ stack # <<>>
  /\ \E req \in {r \in Requests : r.expectedResponseStart = DT_PREFIX} :
       SendCommandWithResponse(req)

NextDispatch ==
  \/ Deliver
  \/ HostDispatch
  \/ CollectRead
  \/ CollectDelay
  \/ CollectDone
  \/ EventProcess
  \/ CallbackDispatch
  \/ CallbackCommand
  \/ CallbackReturn
  \/ EventNext
  \/ CheckUnsolicitedMsgReturn
  \/ DrainRead
  \/ DrainDelay
  \/ DrainDone
  \/ WaitRead
  \/ WaitPanic
  \/ WaitDelay
  \/ WaitExit

SpecDispatch == InitDispatch /\ [][NextDispatch]_vars

-----------------------------------------------------------------------------
(* A modem that keeps sending: more bytes than the buffers hold arrive, so   *)
(* that a poll can find bytes waiting every time.  The processor runs the    *)
(* code of a call that is in progress: delay() returns, the clock advances   *)
(* and a callback comes to its end.                                          *)

MaxFloodCalls == 1

\* Power status messages, or pairs of short position messages, one after the
\* other.
FloodStreams ==
  { [i \in 1..3 |-> Frame(PowerBody)],
    [i \in 1..4 |-> Frame(GeoBody) \o Frame(GeoBody)] }

InitFlood ==
  /\ now = Millis(0, 0)
  /\ wire \in FloodStreams
  /\ hwRx = <<>>
  /\ hwTx = <<>>
  /\ memLow = FALSE
  /\ _swarmBacklog \in {<<>>, Frame(ReceiveBody)}
  /\ commandError = <<>>
  /\ _checkUnsolicitedMsgReentrant = FALSE
  /\ callbacks = {"PW"}
  /\ stack = <<>>
  /\ budget = MaxFloodCalls
  /\ fired = <<>>
  /\ lastCall = NoCall
  /\ lastRet = NoReturn
  /\ fault = "none"
  /\ pruneLog = <<>>
  /\ FramerIdle

\* A step of the code of the call in progress.
ProgramStep ==
  \/ CollectRead \/ CollectDelay \/ CollectDone
  \/ EventProcess \/ CallbackReturn
  \/ EventNext \/ CheckUnsolicitedMsgReturn
  \/ DrainRead \/ DrainDelay \/ DrainDone
  \/ WaitRead \/ WaitPanic \/ WaitDelay \/ WaitExit

NextFlood ==
  \/ Deliver
  \/ HostDispatch
  \/ HostCommand
  \/ ProgramStep

\* Weak fairness of ProgramStep, WF_vars(ProgramStep), written out: a step of
\* the code is possible exactly while a call is in progress, that is while
\* the stack is not empty, so that ENABLED <<ProgramStep>>_vars is stack # <<>>.
ProgramRuns == []<>(stack = <<>>) \/ []<><<ProgramStep>>_vars

SpecFlood == InitFlood /\ [][NextFlood]_vars /\ ProgramRuns

-----------------------------------------------------------------------------
(* Claims about sendCommandWithResponse / waitForResponse *)

WaitReturned == lastRet.fn = "waitForResponse"

\* The received bytes from the offset at, as waitForResponse read them into
\* responseDest.
ReceivedFrom(f, at) == SubSeq(f.responseDest, at + 1, Len(f.responseDest))

\* The frame whose bytes completed the prefix match that decides the call.
MatchedFrame(f) ==
  IF f.errorStartSeen THEN ReceivedFrom(f, f.errorStartedAt)
  ELSE ReceivedFrom(f, f.responseStartedAt)

\* The bytes of s up to and including its first line feed.
FirstLine(s) ==
  IF strchr(s, 1, LF) = 0 THEN s ELSE SubSeq(s, 1, strchr(s, 1, LF))

\* s is one complete frame: "$", a text without "$", "*" or line feed, "*", two
\* characters and the line feed, and its checksum is valid.
IsValidFrame(s) ==
  /\ Len(s) >= 5
  /\ s[1] = DOLLAR
  /\ s[Len(s)] = LF
  /\ s[Len(s) - 3] = STAR
  /\ \A i \in 2..(Len(s) - 4) : s[i] \notin {DOLLAR, STAR, LF}
  /\ checkChecksum(s) = SWARM_M138_ERROR_SUCCESS

\* The milliseconds between the entry of the wait and its return.
WaitElapsed == MillisSince(lastRet.at, lastRet.frame.timeIn)

\* A newline was received after a completed success-prefix or error-prefix
\* match: the scanners run over all the received bytes in one pass.
NewlineAfterMatch(f) ==
  ScanChars([f EXCEPT !.found = FALSE,
                      !.responseStartSeen = FALSE, !.errorStartSeen = FALSE,
                      !.responseIndex = 0, !.errorIndex = 0,
                      !.responseStartedAt = 0, !.errorStartedAt = 0],
            f.responseDest, 0).found

\* C1: whenever the wait resolves with a match and the error scanner has
\* completed, the result is never SUCCESS, and with a valid checksum on the
\* error frame the result is SWARM_M138_ERROR_ERR.
C1_ErrorPriority ==
  (WaitReturned /\ lastRet.frame.found /\ lastRet.frame.errorStartSeen)
    => /\ lastRet.err # SWARM_M138_ERROR_SUCCESS
       /\ IsValidFrame(FirstLine(ReceivedFrom(lastRet.frame,
                                              lastRet.frame.errorStartedAt)))
            => lastRet.err = SWARM_M138_ERROR_ERR

\* C2: if, after the command is written, the wait receives exactly one
\* complete frame that starts with the success prefix, carries the correct
\* checksum and ends in a newline, the call returns SUCCESS and responseDest
\* holds that frame.
C2_ValidReplySucceeds ==
  (/\ WaitReturned
   /\ lastRet.frame.pendingOnEntry = <<>>
   /\ IsValidFrame(lastRet.frame.responseDest)
   /\ IsAt(lastRet.frame.responseDest, 1, lastRet.frame.expectedResponseStart)
   /\ ~IsAt(lastRet.frame.responseDest, 1, lastRet.frame.expectedErrorStart))
    => lastRet.err = SWARM_M138_ERROR_SUCCESS

\* C3: if the frame that matched the success prefix carries two hex digits
\* that differ from the XOR of its bytes between "$" and "*", the call returns
\* SWARM_M138_ERROR_INVALID_CHECKSUM.
C3_BadReplyRejected ==
  (/\ WaitReturned
   /\ lastRet.frame.found
   /\ lastRet.frame.responseStartSeen /\ ~lastRet.frame.errorStartSeen
   /\ checkChecksum(MatchedFrame(lastRet.frame))
        = SWARM_M138_ERROR_INVALID_CHECKSUM)
    => lastRet.err = SWARM_M138_ERROR_INVALID_CHECKSUM

\* C4: waitForResponse returns SWARM_M138_ERROR_TIMEOUT exactly when the
\* deadline has elapsed (timeout milliseconds since entry) without a newline
\* received after a completed success-prefix or error-prefix match.
C4_TimeoutExactly ==
  WaitReturned
    => ((lastRet.err = SWARM_M138_ERROR_TIMEOUT)
          <=> (/\ ~NewlineAfterMatch(lastRet.frame)
               /\ ~MillisBelow(WaitElapsed, lastRet.frame.timeout)))

\* C5: when waitForResponse resolves with a match, the string whose checksum
\* is validated (and from which the error text is taken) is the frame whose
\* bytes completed the prefix match: the recorded match start, used as an
\* offset into the Backlog, points at that frame's "$" - for every Backlog
\* content on entry.
C5_ValidatesMatchedFrame ==
  (WaitReturned /\ lastRet.frame.found)
    => Validated(lastRet.frame, lastRet.backlog) = MatchedFrame(lastRet.frame)

\* The error frame the error scanner matched, as it was received: from the
\* recorded start of the match to the line feed.
MatchedErrorFrame(f) == FirstLine(ReceivedFrom(f, f.errorStartedAt))

\* The first n bytes of s.
Cut(s, n) == SubSeq(s, 1, Min(Len(s), n))

\* The text of an error frame: what follows its "ERR," up to its asterix.
ErrorText(frame) ==
  SubSeq(frame, strstr(frame, 1, ERR_COMMA) + 4,
         strchr(frame, strstr(frame, 1, ERR_COMMA) + 4, STAR) - 1)

\* C12: when waitForResponse returns SWARM_M138_ERROR_ERR, the Command Error
\* Slot holds the text that follows "ERR," up to the asterix of the matched
\* error frame, cut to SWARM_M138_MAX_CMD_ERROR_LEN - 1 characters (the slot
\* being one byte longer, a NUL follows); and the slot is written only when
\* the checksum of that error frame was valid.
C12_ErrorSlot ==
  /\ (WaitReturned /\ lastRet.err = SWARM_M138_ERROR_ERR)
       => /\ IsValidFrame(MatchedErrorFrame(lastRet.frame))
          /\ lastRet.commandError =
               Cut(ErrorText(MatchedErrorFrame(lastRet.frame)),
                   SWARM_M138_MAX_CMD_ERROR_LEN - 1)
  /\ (WaitReturned /\ lastRet.commandError # lastRet.commandErrorBefore)
       => /\ lastRet.frame.errorStartSeen
          /\ IsValidFrame(MatchedErrorFrame(lastRet.frame))

\* C13: waitForResponse never writes to the transport: no step taken while
\* waitForResponse is running, whatever it ends with, changes the sequence of
\* bytes written to the modem.
C13_WaitWritesNothing ==
  [][(stack # <<>> /\ Top.fn = "waitForResponse") => hwTx' = hwTx]_vars

\* C13: a wait that received bytes without a match has timed out, and the
\* modem has been sent the command once and nothing else.
C13_Witness ==
  /\ WaitReturned
  /\ lastRet.err = SWARM_M138_ERROR_TIMEOUT
  /\ lastRet.frame.responseDest # <<>>
  /\ ~MillisBelow(WaitElapsed, lastRet.frame.timeout)
  /\ hwTx = lastRet.frame.command

\* C14: each call of sendCommandWithResponse writes the command once and
\* verbatim, after the drain and before the wait: while the drain runs nothing
\* has been written since the call was made; from the entry of the wait to
\* its return, whatever the outcome, what has been written since the call is
\* the command, once.
C14_CommandWrittenOnce ==
  /\ (stack # <<>> /\ Top.fn = "sendCommand") => hwTx = Top.call.hwTx
  /\ (stack # <<>> /\ Top.fn = "waitForResponse")
       => hwTx = Top.call.hwTx \o Top.command
  /\ WaitReturned
       => lastRet.hwTx = lastRet.frame.call.hwTx \o lastRet.frame.command

\* C14: a call that drained stale bytes before it wrote the command has
\* returned SUCCESS, and the modem has been sent the command once.
C14_Witness ==
  /\ WaitReturned
  /\ lastRet.err = SWARM_M138_ERROR_SUCCESS
  /\ lastRet.frame.call.pending # <<>>
  /\ lastRet.frame.backlogOnEntry = lastRet.frame.call.pending
  /\ lastRet.frame.command # <<>>
  /\ hwTx = lastRet.frame.command

\* C15: the bytes waiting on the transport when sendCommandWithResponse is
\* called are in the Backlog, after what it held, when the command has been
\* written and the wait begins, so that the scanners never see them; and a
\* complete valid frame that starts with the success prefix and was waiting
\* at the call, nothing arriving after it, does not make the call return
\* SUCCESS - whatever the Backlog held at the call.
C15_StaleNeverMatches ==
  WaitReturned =>
    /\ IsAt(lastRet.frame.backlogOnEntry, 1,
            lastRet.frame.call.backlog \o lastRet.frame.call.pending)
    /\ ( /\ IsValidFrame(lastRet.frame.call.pending)
         /\ IsAt(lastRet.frame.call.pending, 1,
                 lastRet.frame.expectedResponseStart)
         /\ lastRet.frame.call.quiet )
         => lastRet.err # SWARM_M138_ERROR_SUCCESS

\* The lines of a Backlog all hold one of the recognized tags.
OnlyTaggedLines(backlog) ==
  \A i \in 1..Len(Tokens(backlog)) : Actionable(Tokens(backlog)[i])

\* The reply (or error) frame that resolved the wait is still a line of the
\* Backlog.
ReplyRemains(f, backlog) ==
  \E i \in 1..Len(Tokens(backlog)) :
     Tokens(backlog)[i] \o <<LF>> = FirstLine(MatchedFrame(f))

\* C16: pruneBacklog runs on every exit path of waitForResponse: whenever
\* waitForResponse returns, the Backlog is what a pruneBacklog has just left,
\* every line in it holds one of the recognized unsolicited tags, and the
\* reply or error frame that resolved the wait is not among them (the Backlog
\* does not accumulate response traffic).
C16_PrunedOnEveryExit ==
  WaitReturned =>
    /\ pruneLog # <<>>
    /\ pruneLog[Len(pruneLog)].backlog = lastRet.left
    /\ OnlyTaggedLines(lastRet.left)
    /\ lastRet.frame.found => ~ReplyRemains(lastRet.frame, lastRet.left)

\* The lines of a Backlog that hold a recognized tag, each with a line feed
\* after it, in order.
RECURSIVE TaggedLines(_)
TaggedLines(lines) ==
  IF lines = <<>> THEN <<>>
  ELSE (IF Actionable(lines[1]) THEN lines[1] \o <<LF>> ELSE <<>>)
         \o TaggedLines(Tail(lines))

C21_NegativeCountIsNoBytes ==
  [][WaitNotReady =>
       /\ hwRx' = hwRx
       /\ _swarmBacklog' = _swarmBacklog
       /\ stack' = stack
       /\ fault' = fault]_vars

\* C22: when the bytes of a poll do not fit the response buffer or the
\* Backlog, waitForResponse accumulates no further bytes in that call: what
\* the Backlog holds when the loop ends is what it held on entry followed by
\* the first bytes received, with nothing left out in between; and the call
\* ends with the match resolved or with TIMEOUT, nothing being overrun.
C22_OverrunStopsAccumulating ==
  WaitReturned =>
    /\ IsAt(lastRet.frame.backlogOnEntry \o lastRet.frame.responseDest, 1,
            lastRet.backlog)
    /\ lastRet.frame.found \/ lastRet.err = SWARM_M138_ERROR_TIMEOUT
    /\ fault = "none"

\* The call of the scenario: the success prefix is "$DT ", the Backlog is
\* empty, and the transport has yielded exactly the bytes of the reply with
\* these digits.
ReplyReceived(digits) ==
  /\ WaitReturned
  /\ lastRet.frame.expectedResponseStart = DT_PREFIX
  /\ lastRet.frame.backlogOnEntry = <<>>
  /\ lastRet.frame.responseDest = DateTimeReply(digits)

\* The frame addChecksumLF makes of "$DT 20230101000000,V*".
DateTimeFramed ==
  addChecksumLF(SubSeq(DateTimeReply(<<>>), 1, Len(DateTimeReply(<<>>)) - 1))

\* C23 as stated: with the bytes "$DT 20230101000000,V*1B\n" the call returns
\* SUCCESS.
C23_ScenarioAsWritten ==
  ReplyReceived(Str(<<"1", "B">>)) => lastRet.err = SWARM_M138_ERROR_SUCCESS

\* C23, amended: the checksum of that payload is 49; with the bytes
\* "$DT 20230101000000,V*49\n" the call returns SUCCESS, and with the digits
\* 1B it returns INVALID_CHECKSUM.
C23_Scenario ==
  /\ DateTimeFramed = DateTimeReply(Str(<<"4", "9">>))
  /\ ReplyReceived(Str(<<"4", "9">>)) =>
       lastRet.err = SWARM_M138_ERROR_SUCCESS
  /\ ReplyReceived(Str(<<"1", "B">>)) =>
       lastRet.err = SWARM_M138_ERROR_INVALID_CHECKSUM

\* C23: the reply with the digits 49 has been received in two pieces and the
\* call has returned SUCCESS.
C23_Witness ==
  /\ ReplyReceived(Str(<<"4", "9">>))
  /\ lastRet.err = SWARM_M138_ERROR_SUCCESS
  /\ lastRet.at # lastRet.frame.timeIn

\* Both scanners of the call f run from their start over the bytes chars.
Rescan(f, chars) ==
  ScanChars([f EXCEPT !.found = FALSE,
                      !.responseStartSeen = FALSE, !.errorStartSeen = FALSE,
                      !.responseIndex = 0, !.errorIndex = 0,
                      !.responseStartedAt = 0, !.errorStartedAt = 0],
            chars, 0)

\* The bytes of the stream up to the first newline received while a scanner
\* had a completed match.
UpToFirstStop(f) ==
  SubSeq(f.responseDest, 1,
         CHOOSE n \in 1..Len(f.responseDest) :
           /\ Rescan(f, SubSeq(f.responseDest, 1, n)).found
           /\ \A k \in 1..(n - 1) :
                ~Rescan(f, SubSeq(f.responseDest, 1, k)).found)

\* C24: the loop of waitForResponse stops at the first newline received while
\* a scanner has a completed match: no byte after that newline has been
\* scanned, and the scanners that count as completed are those that were
\* completed at that newline.
C24_StopsAtFirstNewline ==
  (WaitReturned /\ lastRet.frame.found) =>
    /\ lastRet.frame.responseDest = UpToFirstStop(lastRet.frame)
    /\ lastRet.frame.errorStartSeen
         = Rescan(lastRet.frame, UpToFirstStop(lastRet.frame)).errorStartSeen
    /\ lastRet.frame.responseStartSeen
         = Rescan(lastRet.frame, UpToFirstStop(lastRet.frame)).responseStartSeen

\* A proper prefix of the pattern is also a suffix of it.
SelfOverlap(pat) ==
  \E n \in 1..(Len(pat) - 1) :
     SubSeq(pat, 1, n) = SubSeq(pat, Len(pat) - n + 1, Len(pat))

\* C28: for a success prefix without self-overlap the scanner of
\* waitForResponse has completed a match when the call returns if and only if
\* the prefix occurs as a substring of the bytes received, and the recorded
\* start is the offset of the first occurrence.
C28_ScannerIsSubstringSearch ==
  (WaitReturned /\ ~SelfOverlap(lastRet.frame.expectedResponseStart)) =>
    LET first == strstr(lastRet.frame.responseDest, 1,
                        lastRet.frame.expectedResponseStart)
    IN  /\ lastRet.frame.responseStartSeen <=> first # 0
        /\ lastRet.frame.responseStartSeen =>
              lastRet.frame.responseStartedAt + 1 = first

\* C32: for every value of the clock on entry, those within the timeout of
\* its wrap included, waitForResponse returns TIMEOUT only when at least
\* timeout milliseconds have passed since entry.
C32_TimeoutNotEarly ==
  (WaitReturned /\ lastRet.err = SWARM_M138_ERROR_TIMEOUT) =>
    ~MillisBelow(WaitElapsed, lastRet.frame.timeout)

\* C33: the Command Error Slot changes only on a confirmed error frame: a
\* waitForResponse that returns SUCCESS, TIMEOUT, INVALID_FORMAT or
\* INVALID_CHECKSUM leaves commandError as it was on entry, and a return that
\* changed it had matched an error frame whose checksum is valid.
C33_SlotFrame ==
  WaitReturned =>
    /\ lastRet.err # SWARM_M138_ERROR_ERR
         => lastRet.commandError = lastRet.commandErrorBefore
    /\ lastRet.commandError # lastRet.commandErrorBefore
         => IsValidFrame(MatchedErrorFrame(lastRet.frame))

\* The lines of the Backlog that are the frame that resolved the wait.
RepliesLeft(ret) ==
  SelectSeq(Tokens(ret.left),
            LAMBDA line : line \o <<LF>> = FirstLine(MatchedFrame(ret.frame)))

\* C35: a solicited reply is never replayed as an unsolicited event: after a
\* waitForResponse that returns SUCCESS the frame that matched is not a line
\* of the Backlog that a block of processUnsolicitedEvent decodes, so that no
\* later checkUnsolicitedMsg invokes a callback for it.
C35_ReplyNotReplayed ==
  (WaitReturned /\ lastRet.err = SWARM_M138_ERROR_SUCCESS) =>
    \A i \in DOMAIN RepliesLeft(lastRet) :
       \/ ~EventValid(RepliesLeft(lastRet)[i])
       \/ processUnsolicitedEvent(RepliesLeft(lastRet)[i], {}).tag = "none"

\* C36: buffer bounds: in every reachable state the Backlog holds at most
\* _RxBuffSize - 1 bytes before its NUL, and no operation (the drain of
\* sendCommand, the append of waitForResponse, the reassembly of pruneBacklog
\* with the line feed it re-adds) has written at or beyond the capacity of
\* the Backlog, the prune buffer or the response buffer.
C36_BufferBounds ==
  /\ Len(_swarmBacklog) < _RxBuffSize
  /\ fault \notin {"pruneBacklog overrun", "memcpy of SIZE_MAX bytes"}
  /\ \A i \in DOMAIN stack :
       stack[i].fn = "waitForResponse"
         => Len(stack[i].responseDest) < stack[i].destSize

\* The call f as it would stand had the transport handed over the received
\* bytes one by one: the loop ends with the newline that sets found, and the
\* Backlog holds what it held on entry followed by the bytes read until then.
ByteByByte(f) ==
  [frame |-> Rescan(f, UpToFirstStop(f)),
   backlog |-> f.backlogOnEntry \o UpToFirstStop(f)]

\* C38: chunking independence: the result of a waitForResponse that found
\* its match, and the Command Error Slot it leaves, are those of the same
\* bytes handed over one by one, however the transport has cut the stream
\* into the chunks of the polls (the Backlog having room for the bytes).
C38_ChunkingIndependent ==
  (/\ WaitReturned /\ lastRet.frame.found
   /\ Len(lastRet.frame.backlogOnEntry) + Len(lastRet.frame.responseDest)
        < _RxBuffSize)
    => LET one == ByteByByte(lastRet.frame)
           err == WaitErr(one.frame, one.backlog)
       IN  /\ lastRet.err = err
           /\ lastRet.commandError =
                IF err = SWARM_M138_ERROR_ERR
                THEN extractCommandError(Validated(one.frame, one.backlog))
                ELSE lastRet.commandErrorBefore

-----------------------------------------------------------------------------
(* Claims about checkUnsolicitedMsg *)

DispatchReturned == lastRet.fn = "checkUnsolicitedMsg"

\* A step in which checkUnsolicitedMsg is called by a callback.
NestedDispatchCall ==
  /\ lastCall'.seq # lastCall.seq
  /\ lastCall'.fn = "checkUnsolicitedMsg"
  /\ lastCall'.depth > 0

\* The events a call that ran to its end has processed, in order.
EventTexts(ret) == [i \in 1..Len(ret.events) |-> ret.events[i].text]

\* C6: a call of checkUnsolicitedMsg made by a callback that
\* checkUnsolicitedMsg has invoked returns false in that step, invokes no
\* callback, reads and writes nothing on the transport and leaves the
\* Backlog, the flag and the whole call stack (with it the working buffer,
\* the event and the split position of the outer call) as they were; and an
\* outer call in which that happened, and to which no new Backlog was moved,
\* has processed every line of its working buffer when it returns.
C6_NestedCallRejected ==
  /\ [][NestedDispatchCall =>
          /\ lastRet'.fn = "checkUnsolicitedMsg"
          /\ lastRet'.ret = FALSE
          /\ lastRet'.depth = lastCall'.depth
          /\ UNCHANGED <<fired, hwRx, hwTx, wire, now, _swarmBacklog, stack,
                         _checkUnsolicitedMsgReentrant, commandError, fault>>
       ]_vars
  /\ [](( /\ DispatchReturned /\ lastRet.why = "done" /\ lastRet.depth = 0
          /\ lastCall.fn = "checkUnsolicitedMsg" /\ lastCall.depth > 0
          /\ lastRet.appended = 0 )
        => EventTexts(lastRet) = Tokens(lastRet.buffer))

\* C6: a callback's call has just been rejected while the outer call, which
\* took one frame from the Backlog and one from the transport, has processed
\* the first and has the second still ahead of its split position.
C6_Witness ==
  /\ Len(stack) = 2
  /\ stack[2].fn = "callback"
  /\ stack[1].fn = "checkUnsolicitedMsg"
  /\ lastCall.fn = "checkUnsolicitedMsg" /\ lastCall.depth = 2
  /\ DispatchReturned /\ lastRet.why = "reentered" /\ ~lastRet.ret
  /\ stack[1].entry.backlog # <<>>
  /\ Len(stack[1]._swarmRxBuffer) > Len(stack[1].entry.backlog)
  /\ Len(stack[1].events) = 1
  /\ stack[1].preservedEvent = Len(stack[1].entry.backlog)

\* A complete frame that checkChecksum accepts and that a block of
\* processUnsolicitedEvent decodes: the tag of that block, "none" otherwise.
FrameTag(s) ==
  IF /\ Len(s) >= 2
     /\ s[Len(s)] = LF
     /\ strchr(s, 1, LF) = Len(s)
     /\ checkChecksum(SubSeq(s, 1, Len(s) - 1)) = SWARM_M138_ERROR_SUCCESS
  THEN processUnsolicitedEvent(SubSeq(s, 1, Len(s) - 1), {}).tag
  ELSE "none"

\* A top-level call has returned that found in the Backlog one frame of a
\* tag and waiting on the transport one frame of another, with both
\* callbacks registered and nothing more to come.
TwoFramesCase ==
  /\ DispatchReturned /\ lastRet.depth = 0
  /\ FrameTag(lastRet.entry.backlog) \in callbacks
  /\ FrameTag(lastRet.entry.pending) \in callbacks
  /\ FrameTag(lastRet.entry.backlog) # FrameTag(lastRet.entry.pending)
  /\ lastRet.entry.quiet

\* C7: a checkUnsolicitedMsg call that finds a complete, valid frame of one
\* tag in the Backlog and one of another tag on the transport invokes the
\* callback of each of the two tags once and no other callback.
C7_EachCallbackOnce ==
  TwoFramesCase =>
    lastRet.fired = <<FrameTag(lastRet.entry.backlog),
                      FrameTag(lastRet.entry.pending)>>

\* A top-level call has returned that was made right after another top-level
\* call had returned, the first having found the Backlog empty and nothing
\* having arrived on the transport from the entry of the first on.
SecondCallCase ==
  /\ DispatchReturned /\ lastRet.depth = 0
  /\ lastRet.entry.after.fn = "checkUnsolicitedMsg"
  /\ lastRet.entry.after.top
  /\ lastRet.entry.after.quiet
  /\ lastRet.entry.after.empty

\* What the second call is claimed to do: no callback, false returned, the
\* Backlog left empty.
HandlesNothing ==
  /\ lastRet.fired = <<>>
  /\ lastRet.ret = FALSE
  /\ lastRet.left = <<>>

\* C11: checkUnsolicitedMsg is idempotent on an empty Backlog: a call made
\* right after another, with no byte arriving between or during the two,
\* invokes no callback, returns false, leaves the Backlog empty and changes
\* nothing else: it frees no memory it has not allocated.
C11_SecondCallIdle ==
  SecondCallCase => (HandlesNothing /\ lastRet.deleted # "garbage")

\* C18: whenever a top-level checkUnsolicitedMsg call returns, the Backlog is
\* empty - also when callbacks have issued commands during the pass that put
\* new frames into the Backlog.
C18_EmptyAfterDispatch ==
  (DispatchReturned /\ lastRet.depth = 0) => lastRet.left = <<>>

\* The callbacks a pass over these events invokes: for each event that a
\* block decoded, the callback of that block if it is registered.
RECURSIVE CallbacksOf(_)
CallbacksOf(events) ==
  IF events = <<>> THEN <<>>
  ELSE (IF events[1].tag \in callbacks THEN <<events[1].tag>> ELSE <<>>)
         \o CallbacksOf(Tail(events))

\* The event is a frame that checkChecksum rejects.
Rejected(e) == checkChecksum(e.text) # SWARM_M138_ERROR_SUCCESS

\* C19: in a pass of checkUnsolicitedMsg a frame for which checkChecksum does
\* not return SUCCESS is decoded by no block, so that the callbacks invoked
\* are those of the other frames and the call returns true only if one of
\* the other frames was decoded; and the frames after it are processed:
\* every line of the working buffer has been (no new Backlog being moved in).
C19_BadFramesSkipped ==
  (DispatchReturned /\ lastRet.why = "done") =>
    /\ \A i \in 1..Len(lastRet.events) :
         Rejected(lastRet.events[i]) => lastRet.events[i].tag = "none"
    /\ lastRet.fired = CallbacksOf(lastRet.events)
    /\ lastRet.ret =>
         \E i \in 1..Len(lastRet.events) :
            ~Rejected(lastRet.events[i]) /\ lastRet.events[i].tag # "none"
    /\ lastRet.appended = 0 => EventTexts(lastRet) = Tokens(lastRet.buffer)

\* C19: a pass has found a frame with a bad checksum and after it a valid
\* one: no callback for the first, the callback of the second invoked.
C19_Witness ==
  /\ DispatchReturned /\ lastRet.why = "done"
  /\ Len(lastRet.events) = 2
  /\ checkChecksum(lastRet.events[1].text) = SWARM_M138_ERROR_INVALID_CHECKSUM
  /\ lastRet.events[1].tag = "none"
  /\ lastRet.events[2].tag \in callbacks
  /\ lastRet.fired = <<lastRet.events[2].tag>>
  /\ lastRet.ret

\* The event passed the checksum and a block of processUnsolicitedEvent
\* decoded it and returned true.
Decoded(e) ==
  checkChecksum(e.text) = SWARM_M138_ERROR_SUCCESS /\ e.tag # "none"

\* C20: checkUnsolicitedMsg returns true if and only if at least one frame of
\* the drain passed the checksum and was decoded by processUnsolicitedEvent,
\* whether or not a callback is registered for its tag.
C20_TrueIffDecoded ==
  DispatchReturned =>
    (lastRet.ret <=> \E i \in DOMAIN lastRet.events : Decoded(lastRet.events[i]))

\* C20: a call has returned true for a frame that was decoded and for whose
\* tag no callback is registered: nothing was invoked.
C20_Witness ==
  /\ DispatchReturned /\ lastRet.ret
  /\ lastRet.fired = <<>>
  /\ \E i \in DOMAIN lastRet.events :
        Decoded(lastRet.events[i]) /\ lastRet.events[i].tag \notin callbacks

\* The sequence ends with these items.
EndsWith(items, last) ==
  /\ Len(last) <= Len(items)
  /\ SubSeq(items, Len(items) - Len(last) + 1, Len(items)) = last

\* C25: what has come into the Backlog while checkUnsolicitedMsg was
\* processing has been moved to the working buffer and dispatched in the same
\* call, after the frames that were in the buffer before: when the call
\* returns nothing of it is left in the Backlog, and the lines moved are the
\* last events processed.
C25_NewBacklogDispatched ==
  (DispatchReturned /\ lastRet.why = "done" /\ lastRet.depth = 0) =>
    /\ lastRet.left = <<>>
    /\ EndsWith(EventTexts(lastRet), Tokens(lastRet.moved))

\* The receive test message holds what one of its two forms requires: the
\* nine numbers of a satellite pass up to "DI=0x", or the background form
\* "$RT RSSI=<rssi>*" whole, the asterix after the number included.
ReceiveTestWellFormed(event) ==
  LET eventStart == strstr(event, 1, FieldBlocks.RT.tag)
      rssi == SkipSpace(event, eventStart + 9)
  IN  /\ eventStart # 0
      /\ \/ sscanf(event, eventStart, FMT_RT).n = 9
         \/ /\ IntEnd(event, rssi, Len(event) + 1) # 0
            /\ At(event, IntEnd(event, rssi, Len(event) + 1)) = STAR

\* C26: in a pass of checkUnsolicitedMsg no frame invokes more than one
\* callback, and a frame for which the receive test callback is invoked
\* holds well-formed fields: a frame with the tag "$RT " and malformed
\* fields invokes no callback for the tag.
C26_MalformedInvokesNothing ==
  DispatchReturned =>
    /\ Len(lastRet.fired) <= Len(lastRet.events)
    /\ \A i \in DOMAIN lastRet.events :
         (lastRet.events[i].tag = "RT" /\ "RT" \in callbacks) =>
           ReceiveTestWellFormed(lastRet.events[i].text)

\* C29: pruneBacklog leaves exactly the lines of the old Backlog that hold one
\* of the ten kept substrings, in their order, each followed by one line
\* feed: nothing of another line, and every byte of a kept line as it was.
C29_PruneKeepsTaggedLines ==
  [][PruneStep =>
       _swarmBacklog'
         = JoinLines(SelectSeq(Tokens(_swarmBacklog), Actionable), TRUE)]_vars

\* The working buffer as the call collected it, before anything was moved in
\* from the Backlog.
Collected(ret) == SubSeq(ret.buffer, 1, Len(ret.buffer) - Len(ret.moved))

\* The position of the last line feed of s, 0 without one.
LastLF(s) ==
  IF \E i \in DOMAIN s : s[i] = LF
  THEN CHOOSE i \in DOMAIN s : s[i] = LF /\ \A j \in (i + 1)..Len(s) : s[j] # LF
  ELSE 0

\* The frames of s: its lines that end with a line feed.
WholeFrames(s) == Tokens(SubSeq(s, 1, LastLF(s)))

\* C30: the events a pass of checkUnsolicitedMsg has processed begin with the
\* frames of the working buffer it collected, each once, unchanged and in
\* their order, whatever commands the callbacks have issued in between.
C30_OuterSplitUndisturbed ==
  (DispatchReturned /\ lastRet.why = "done") =>
    IsAt(EventTexts(lastRet), 1, WholeFrames(Collected(lastRet)))

\* C30: a pass has collected two frames, the callback of the first has
\* issued a command whose wait and prune have left frames in the Backlog, and
\* the second frame, which has no callback, was processed after it.
C30_Witness ==
  /\ DispatchReturned /\ lastRet.why = "done"
  /\ hwTx # lastRet.entry.hwTx
  /\ lastRet.left # <<>>
  /\ Len(WholeFrames(Collected(lastRet))) = 2
  /\ Len(lastRet.events) = 2
  /\ lastRet.events[1].tag \in callbacks
  /\ lastRet.events[2].tag \notin callbacks \cup {"none"}

\* A call of checkUnsolicitedMsg has passed the guard and is running.
Dispatching == \E i \in DOMAIN stack : stack[i].fn = "checkUnsolicitedMsg"

\* The drain of sendCommand is running.
Draining == \E i \in DOMAIN stack : stack[i].fn = "sendCommand"

\* C31: a call of checkUnsolicitedMsg that is running comes to its return and
\* a drain of sendCommand that is running comes to its end, also when every
\* poll finds bytes waiting.
C31_LoopsTerminate ==
  /\ Dispatching ~> ~Dispatching
  /\ Draining ~> ~Draining

\* C31: a call of checkUnsolicitedMsg has returned without a delay (the clock
\* is where it was): every poll found bytes, the collection ended with
\* bytes still waiting that the working buffer has no room for.
C31_Witness ==
  /\ DispatchReturned /\ lastRet.why = "done"
  /\ now = Millis(0, 0)
  /\ hwRx # <<>>
  /\ Len(Collected(lastRet)) + Len(hwRx) >= _RxBuffSize
  /\ Len(lastRet.events) >= 2

\* The bursts of the wire, one after the other.
RECURSIVE Flat(_)
Flat(bursts) ==
  IF bursts = <<>> THEN <<>> ELSE bursts[1] \o Flat(Tail(bursts))

\* A complete frame with a valid checksum that a block decodes and whose
\* callback is registered.
Deliverable(line) ==
  /\ EventValid(line)
  /\ processUnsolicitedEvent(line, {}).tag \in callbacks

\* The number of such frames in a stream of bytes.
Owed(bytes) == Len(SelectSeq(WholeFrames(bytes), Deliverable))

\* The received bytes that no call has taken yet, in the order of their
\* arrival: in the Backlog, on the port, on the wire.
InTransit == _swarmBacklog \o hwRx \o Flat(wire)

\* A call of checkUnsolicitedMsg from loop() has run to its end, and the
\* bytes it took into its working buffer and the bytes still in transit
\* together stay below the capacity of the buffers.
PassBelowCapacity ==
  /\ DispatchReturned /\ lastRet.why = "done" /\ stack = <<>>
  /\ Len(lastRet.buffer) + Len(InTransit) < _RxBuffSize

\* C34: no unsolicited frame is lost or duplicated: of the deliverable frames
\* in the bytes a call of checkUnsolicitedMsg took in followed by the bytes
\* still in transit, each one either had its callback invoked by this call,
\* once, or is still whole in the bytes in transit, for a later call -
\* however the stream is cut into bursts and calls.
C34_NoFrameLostOrDuplicated ==
  PassBelowCapacity =>
    Owed(lastRet.buffer \o InTransit) = Len(lastRet.fired) + Owed(InTransit)

\* C37: the re-entrancy flag is released on every exit: when a call of
\* checkUnsolicitedMsg from loop() has returned - normally, with nothing to
\* do, or early because the working buffer could not be allocated - and the
\* sketch is back in loop(), _checkUnsolicitedMsgReentrant is false.
C37_FlagReleased ==
  (DispatchReturned /\ lastRet.depth = 0 /\ stack = <<>>)
    => _checkUnsolicitedMsgReentrant = FALSE

\* The order in which the frames of a run arrive: the received message that
\* the Backlog holds from the start, then what the modem sends (a power
\* status or receive test message, or pieces of one), then the date/time
\* reply that follows a power status message or answers a command.
ArrivalRank(tag) == IF tag = "RD" THEN 1 ELSE 2

EventRank(text) ==
  IF IsAt(text, 1, Str(<<"$", "R", "D", " ">>)) THEN 1
  ELSE IF IsAt(text, 1, DT_PREFIX) THEN 3
  ELSE 2

\* C39: in-order delivery: the callbacks invoked so far, across all the calls
\* of checkUnsolicitedMsg and the commands issued between, were invoked in
\* the order in which their frames arrived, and the events of each pass were
\* processed in that order too: neither the Backlog, nor pruneBacklog, nor the
\* move of the Backlog into the working buffer has put a later frame before
\* an earlier one.
C39_InOrderDelivery ==
  /\ \A i, j \in DOMAIN fired :
        i < j => ArrivalRank(fired[i]) <= ArrivalRank(fired[j])
  /\ DispatchReturned =>
       \A i, j \in DOMAIN lastRet.events :
          i < j => EventRank(lastRet.events[i].text)
                     <= EventRank(lastRet.events[j].text)

\* C39: a first pass has invoked the callback of the frame it found in the
\* Backlog; a command issued by that callback has brought a power status
\* message and its own reply into the Backlog; a second pass has invoked the
\* power status callback and processed the reply after it.
C39_Witness ==
  /\ DispatchReturned /\ lastRet.why = "done"
  /\ fired = <<"RD", "PW">>
  /\ lastRet.entry.fired = 1
  /\ lastRet.entry.hwTx # <<>>
  /\ Len(lastRet.events) = 2
  /\ EventRank(lastRet.events[2].text) = 3

-----------------------------------------------------------------------------
(* C10 *)

\* C10: running pruneBacklog twice leaves the same Backlog as running it once,
\* for every Backlog content (both runs having got their prune buffer).
C10_PruneIdempotent ==
  (Len(pruneLog) >= 2 /\ pruneLog[1].alloc /\ pruneLog[2].alloc)
    => pruneLog[2].backlog = pruneLog[1].backlog

-----------------------------------------------------------------------------
(* The framer on its own: commands and received strings drawn from bounded *)
(* sets, framed, validated, and validated again after one byte is changed. *)

MaxBodyLen == 3
MaxRawLen == 6

\* Characters of a command's tag and payload.
BodyAlphabet == {Ord("M"), Ord("z"), Ord(" "), DOLLAR, STAR}

\* Characters of a received string.
RawAlphabet == {DOLLAR, STAR, Ord("0"), Ord("3")}

\* Values a byte is changed to: NUL, the delimiters, printable characters and
\* a byte with the top bit set.
FlipBytes == {NUL, STAR, DOLLAR, LF, Ord("0"), Ord("M"), Ord("0") + 128}

\* "$" + tag + payload + "*", as the command wrappers build it.
Commands == {<<DOLLAR>> \o body \o <<STAR>> : body \in SeqsUpTo(BodyAlphabet, MaxBodyLen)}

RawStrings == SeqsUpTo(RawAlphabet, MaxRawLen)

\* Received one-letter frames whose two checksum characters are digits,
\* letters of either case, or no hex digit.
ChecksumAlphabet ==
  {Ord("4"), Ord("7"), Ord("a"), Ord("A"), Ord("d"), Ord("D"), Ord("g")}
CasedStrings ==
  { <<DOLLAR, body, STAR, hi, lo>> :
      body \in {Ord("M"), Ord("z")}, hi \in ChecksumAlphabet, lo \in ChecksumAlphabet }

NoFlip == [pos |-> 0, byte |-> 0, before |-> <<>>]

InitFramer ==
  /\ \/ fstr \in Commands /\ fop = "command"
     \/ fstr \in RawStrings \cup CasedStrings /\ fop = "received"
  /\ forig = fstr
  /\ fres = "none"
  /\ fflip = NoFlip
  /\ EngineConstructed
  /\ now = Millis(0, 0)
  /\ wire = <<>> /\ memLow = FALSE /\ budget = 0

\* A command wrapper calls addChecksumLF on the command it has built.
FramerAdd ==
  /\ fop = "command"
  /\ fstr' = addChecksumLF(fstr)
  /\ fop' = "framed"
  /\ UNCHANGED <<forig, fres, fflip, engineVars>>

\* checkChecksum is called on the string.
FramerCheck ==
  /\ fop \in {"framed", "received"}
  /\ fres = "none"
  /\ fres' = checkChecksum(fstr)
  /\ UNCHANGED <<fstr, forig, fop, fflip, engineVars>>

\* One byte of an accepted frame is changed, and checkChecksum is called again.
FramerFlip ==
  /\ fop \in {"framed", "received"}
  /\ fres = SWARM_M138_ERROR_SUCCESS
  /\ \E pos \in 1..Len(fstr), b \in FlipBytes :
       /\ b # fstr[pos]
       /\ fflip' = [pos |-> pos, byte |-> b, before |-> fstr]
       /\ fstr' = CStr([fstr EXCEPT ![pos] = b])
       /\ fres' = checkChecksum(CStr([fstr EXCEPT ![pos] = b]))
  /\ fop' = "flipped"
  /\ UNCHANGED <<forig, engineVars>>

NextFramer == FramerAdd \/ FramerCheck \/ FramerFlip

SpecFramer == InitFramer /\ [][NextFramer]_vars

-----------------------------------------------------------------------------
(* C8 *)

\* The command's tag and payload hold no asterix: the only one ends the command.
NoAsterixInBody(command) ==
  \A i \in 1..(Len(command) - 1) : command[i] # STAR

\* The frame addChecksumLF made is the command followed by three characters.
CommandKept == Len(fstr) = Len(forig) + 3 /\ SubSeq(fstr, 1, Len(forig)) = forig

\* C8 as claimed: for every tag and payload, checkChecksum accepts the frame
\* addChecksumLF makes of "$" + tag + payload + "*", and the tag and payload
\* bytes are unchanged.
C8_RoundTripEveryPayload ==
  (fop = "framed" /\ fres # "none")
    => (fres = SWARM_M138_ERROR_SUCCESS /\ CommandKept)

\* C8 amended: for every tag and payload that hold no asterix, checkChecksum
\* accepts the frame addChecksumLF makes of "$" + tag + payload + "*", and the
\* tag and payload bytes are unchanged.
C8_RoundTrip ==
  (fop = "framed" /\ fres # "none" /\ NoAsterixInBody(forig))
    => (fres = SWARM_M138_ERROR_SUCCESS /\ CommandKept)

\* A framed and validated command without an asterix in its body whose
\* checksum has a digit above 9 and whose body holds a dollar.
C8_Witness ==
  /\ fop = "framed"
  /\ fres = SWARM_M138_ERROR_SUCCESS
  /\ NoAsterixInBody(forig)
  /\ Len(forig) = MaxBodyLen + 2
  /\ \E i \in 2..Len(forig) : forig[i] = DOLLAR
  /\ fstr[Len(fstr) - 1] >= Ord("a")

-----------------------------------------------------------------------------
(* C9 *)

\* The changed byte lies strictly between the first dollar of the frame and
\* the first asterix after it.
FlipInRegion ==
  LET dollar == strchr(fflip.before, 1, DOLLAR)
      asterix == strchr(fflip.before, dollar, STAR)
  IN  dollar < fflip.pos /\ fflip.pos < asterix

\* C9 as claimed: changing any one byte strictly between the dollar and the
\* asterix of an accepted frame to any different value makes checkChecksum
\* return INVALID_CHECKSUM.
C9_FlipAnyByte ==
  (fop = "flipped" /\ FlipInRegion)
    => fres = SWARM_M138_ERROR_INVALID_CHECKSUM

\* C9 amended: changing any one byte strictly between the dollar and the
\* asterix of an accepted frame to any different value other than an asterix
\* or NUL makes checkChecksum return INVALID_CHECKSUM.
C9_FlipByte ==
  (fop = "flipped" /\ FlipInRegion /\ fflip.byte \notin {STAR, NUL})
    => fres = SWARM_M138_ERROR_INVALID_CHECKSUM

\* A byte of the checksummed region of an accepted frame was changed to a
\* byte with the top bit set and the frame was rejected for its checksum.
C9_Witness ==
  /\ fop = "flipped"
  /\ FlipInRegion
  /\ fflip.byte >= 128
  /\ fres = SWARM_M138_ERROR_INVALID_CHECKSUM

-----------------------------------------------------------------------------
(* C40 *)

\* The asterix addChecksumLF takes as the end of the command: the first one
\* after the dollar, or the one that follows it directly.
FramingAsterix(command) ==
  LET first == strchr(command, strchr(command, 1, DOLLAR), STAR)
  IN  IF At(command, first + 1) = STAR THEN first + 1 ELSE first

\* The asterix checkChecksum takes as the end of the frame's text.
ValidatingAsterix(frame) == strchr(frame, strchr(frame, 1, DOLLAR), STAR)

\* C40: addChecksumLF and checkChecksum agree on the checksummed region for
\* every command, those that end in two asterixes included: the bytes the
\* first has XORed are the bytes the second XORs, and the two hex digits are
\* read where they were written.
C40_SameRegion ==
  (fop = "framed") =>
    LET dollar == strchr(forig, 1, DOLLAR)
    IN  /\ ChecksumRegion(forig, dollar, FramingAsterix(forig))
             = ChecksumRegion(fstr, dollar, ValidatingAsterix(fstr))
        /\ FramingAsterix(forig) = ValidatingAsterix(fstr)

-----------------------------------------------------------------------------
(* C27 *)

\* The hex digits in their two spellings, the digit of value v at v + 1.
LowerCaseDigits ==
  Str(<<"0", "1", "2", "3", "4", "5", "6", "7", "8", "9",
        "a", "b", "c", "d", "e", "f">>)
UpperCaseDigits ==
  Str(<<"0", "1", "2", "3", "4", "5", "6", "7", "8", "9",
        "A", "B", "C", "D", "E", "F">>)
IsHexDigit(c) ==
  \E v \in 0..15 : LowerCaseDigits[v + 1] = c \/ UpperCaseDigits[v + 1] = c
DigitValue(c) ==
  CHOOSE v \in 0..15 : LowerCaseDigits[v + 1] = c \/ UpperCaseDigits[v + 1] = c

\* The position of the first c in s at or after from, 0 without one.
FirstAt(s, c, from) ==
  IF \E i \in from..Len(s) : s[i] = c
  THEN CHOOSE i \in from..Len(s) :
         s[i] = c /\ \A j \in from..(i - 1) : s[j] # c
  ELSE 0

\* The 8-bit exclusive or of the bytes of s: bit k is set when an odd number
\* of the bytes have it set.
BitOf(byte, k) == (byte \div (2 ^ k)) % 2
RECURSIVE ParityBits(_, _)
ParityBits(s, k) ==
  IF k > 7 THEN 0
  ELSE (Cardinality({i \in DOMAIN s : BitOf(s[i], k) = 1}) % 2) * (2 ^ k)
         + ParityBits(s, k + 1)

\* The classification of an input string as the specification words it.
Classified(s) ==
  LET dollar == FirstAt(s, DOLLAR, 1)
      asterix == FirstAt(s, STAR, dollar)
  IN  IF \/ dollar = 0
         \/ asterix = 0
         \/ ~(asterix + 2 <= Len(s))
         \/ ~IsHexDigit(s[asterix + 1])
         \/ ~IsHexDigit(s[asterix + 2])
      THEN SWARM_M138_ERROR_INVALID_FORMAT
      ELSE IF ParityBits(SubSeq(s, dollar + 1, asterix - 1), 0)
                # 16 * DigitValue(s[asterix + 1]) + DigitValue(s[asterix + 2])
      THEN SWARM_M138_ERROR_INVALID_CHECKSUM
      ELSE SWARM_M138_ERROR_SUCCESS

\* C27: checkChecksum returns INVALID_FORMAT for a string without a dollar,
\* without an asterix after the first dollar, or with a character that is no
\* hex digit (0-9, a-f, A-F) in the two places after that asterix; otherwise
\* INVALID_CHECKSUM when the 8-bit exclusive or of the bytes strictly between
\* the two differs from the value of the two digits; otherwise SUCCESS.  The
\* call leaves the Backlog, the Command Error Slot and the string as they were.
C27_Classification ==
  (fres # "none") =>
    /\ fres = Classified(fstr)
    /\ _swarmBacklog = <<>>
    /\ commandError = <<>>
    /\ fop = "received" => fstr = forig

\* C27: a received frame whose checksum has a digit in upper case has been
\* checked and accepted.
C27_Witness ==
  /\ fop = "received"
  /\ fres = SWARM_M138_ERROR_SUCCESS
  /\ \E i \in DOMAIN fstr : fstr[i] = Ord("D")

=============================================================================
